---- MODULE Spec2Model ----
(***************************************************************************)
(* Test-case generation pipeline of tmt-cli: command_gen and its four      *)
(* stages (GenerationStep.run_generator, ValidationStep.run_validator,     *)
(* SolutionStep.run_solution, ICPCCheckerStep.run_checker), and the        *)
(* process sandbox / supervisor of internal/runner.py (Process,            *)
(* wait_procs).                                                            *)
(***************************************************************************)
EXTENDS Integers, Sequences, FiniteSets, TLC

(* ------------------------------ bounds -------------------------------- *)
\* number of tests of the recipe
NumTests == 2
\* longest generator pipeline (processes after the manual rewrite)
MaxCommands == 2
\* most validators that apply to one test
MaxValidators == 2
\* most children of the run that exist (alive or unreaped) at one time
MaxProcs == 3
\* most commands of one pipeline at the process level
MaxBatch == 2
\* time_limit_sec of a child, in clock ticks
TimeLimit == 1
\* memory limit of a solution, in units of a solution's peak memory
MemoryLimit == 1
\* most testsets of a recipe
MaxTestsets == 10
\* the watchdog fires this long after the time limit
WatchdogGrace == 1

(* ------------------------- outcome model ------------------------------ *)
\* ExecutionOutcome members; UNKNOWN is the slot's value before any verdict
ExecutionOutcome ==
    {"SUCCESS", "CRASHED", "FAILED", "TIMEDOUT", "SKIPPED", "SKIPPED_SUCCESS", "UNKNOWN"}

Slots == {"input_generation", "input_validation", "output_generation", "output_validation"}

\* GenerationResult(): a fresh result, no verdict in any slot
GenerationResult ==
    [input_generation |-> "UNKNOWN", input_validation |-> "UNKNOWN",
     output_generation |-> "UNKNOWN", output_validation |-> "UNKNOWN",
     is_output_forced |-> FALSE]

\* GenerationResult.__bool__: every stage verdict is a successful one
GenerationResultBool(r) ==
    \A s \in Slots : r[s] \in {"SUCCESS", "SKIPPED_SUCCESS"}

\* how a process of a trusted step (generator, validator) can end
ProcOutcome == {"ok", "timedout", "nonzero", "signaled"}

\* Process.is_timedout
is_timedout(o) == o = "timedout"

\* process.status != 0 : a non-zero exit code or a termination by signal
status_nonzero(o) == o \in {"nonzero", "signaled"}

\* Process.is_signaled_exit
is_signaled_exit(o) == o = "signaled"

\* verdicts run_solution can return, by problem type
SolutionVerdicts(problem_type) ==
    IF problem_type = "BATCH"
    THEN {"RUN_SUCCESS", "NO_FILE", "RUNERROR_MEMORY", "TIMEOUT", "TIMEOUT_WALL",
          "OUTPUT_LIMIT", "RUNERROR_SIGNAL", "RUNERROR_EXITCODE"}
    ELSE {"CHECKER_TIMEDOUT", "CHECKER_CRASHED", "ACCEPTED", "WRONG",
          "RUNERROR_MEMORY", "TIMEOUT", "TIMEOUT_WALL",
          "OUTPUT_LIMIT", "RUNERROR_SIGNAL", "RUNERROR_EXITCODE"}

\* verdicts run_checker can return for a RUN_SUCCESS record
CheckerVerdicts == {"CHECKER_TIMEDOUT", "CHECKER_CRASHED", "ACCEPTED", "WRONG", "NO_OUTPUT"}

group_accepted == {"RUN_SUCCESS", "ACCEPTED", "PARTIAL", "WRONG", "NO_FILE", "NO_OUTPUT"}
group_timeout == {"TIMEOUT", "TIMEOUT_WALL"}
group_runtime_error == {"RUNERROR_OUTPUT", "RUNERROR_SIGNAL", "RUNERROR_EXITCODE", "RUNERROR_MEMORY"}
group_judge_error == {"MANAGER_CRASHED", "MANAGER_TIMEOUT", "CHECKER_CRASHED",
                      "CHECKER_FAILED", "CHECKER_TIMEDOUT", "INTERNAL_ERROR"}

\* EvaluationOutcome -> ExecutionOutcome when the answer's correctness is
\* irrelevant; "RAISE" stands for the ValueError of the final else
eval_outcome_to_run_outcome(v) ==
    IF v \in group_accepted THEN "SUCCESS"
    ELSE IF v \in group_timeout THEN "TIMEDOUT"
    ELSE IF v \in group_runtime_error THEN "CRASHED"
    ELSE IF v \in group_judge_error THEN "FAILED"
    ELSE "RAISE"

\* EvaluationOutcome -> ExecutionOutcome when the checker graded the answer
eval_outcome_to_grade_outcome(v) ==
    IF v \in {"ACCEPTED", "PARTIAL"} THEN "SUCCESS" ELSE "FAILED"

(* ------------------------------ state --------------------------------- *)
VARIABLES
    config,         \* problem.yaml: problem_type, checker_type, check_* flags
    pc,             \* position of command_gen inside the per-test loop
    test,           \* index of the test being processed (recipe order)
    result,         \* the GenerationResult of the current test
    gen_procs,      \* run_generator: outcomes of generator_processes
    gen_i,          \* run_generator: index of the status loop
    generates_output, \* run_generator: the pipeline left an output file
    manual_output,  \* the recipe line of the test is "manual INPUT OUTPUT"
    writes,         \* per slot, how many times it was assigned for this test
    clobbered,      \* slots assigned while already holding a verdict
    solution_runs,  \* calls of solution_step.run_solution for this test
    checker_runs,   \* calls of checker_step.run_checker for this test
    summary         \* testcases/summary: the codenames written, in order

gen_vars == <<config, pc, test, result, gen_procs, gen_i, generates_output,
              manual_output, writes, clobbered, solution_runs, checker_runs, summary>>

VARIABLES
    procs,          \* per Process object: OS state and the object's fields
    run_pc,         \* position of the run: compile, spawn loop, wait_procs, exit
    batch_size,     \* number of commands of the current pipeline
    batch_procs,    \* generator_processes: the Process objects spawned so far
    remaining_pids, \* wait_procs: pids of the batch not yet dispatched
    got_pid,        \* wait_procs: pid returned by os.wait3, before post_wait
    exc,            \* the exception that left the run, "none" if none
    spawn_failure   \* the error of the failed spawn of the current batch

run_vars == <<procs, run_pc, batch_size, batch_procs, remaining_pids,
              got_pid, exc, spawn_failure>>

VARIABLES
    val_pc,         \* run_validator: position inside the function
    val_judge,      \* context.config.judge, the judge convention
    val_cmds,       \* how each validator of the test behaves when it is run
    val_fnf,        \* which file, if any, is missing on the file system
    val_i,          \* run_validator: index of the validator loop
    val_started,    \* the validators spawned so far, in order
    val_alive,      \* the validators running now
    val_logs,       \* the validator stderr files in logs_generation
    val_result      \* result.input_validation and result.reason

val_vars == <<val_pc, val_judge, val_cmds, val_fnf, val_i, val_started,
              val_alive, val_logs, val_result>>

VARIABLES
    sol_pc,         \* position: before run_solution, before run_checker, done
    sol_variant,    \* the problem type: which solution step is in use
    sol_proc,       \* what the reaped solution process reports
    sol_output,     \* the solution's output file in the sandbox after the run
    sol_checker,    \* what the reaped interactor / checker process reports
    sol_feedback,   \* feedback_dir/judgemessage.txt after the run
    sol_record      \* the EvaluationResult

sol_vars == <<sol_pc, sol_variant, sol_proc, sol_output, sol_checker,
              sol_feedback, sol_record>>

VARIABLES
    cmd_pc,         \* position of a "tmt gen" run, from main to its end
    cmd_files,      \* the state of problem.yaml, compiler.yaml, the recipe
                    \* and the model solution on disk
    cmd_config,     \* the parts of the parsed configuration read by command_gen
    cmd_compile_i,  \* index of the next compile step
    cmd_spawned,    \* the child processes spawned so far, in order
    cmd_verdicts,   \* the verdicts of the compile steps done so far
    cmd_cleaned,    \* the testcases directory has been cleaned
    cmd_exit        \* how the run ended, "none" while it runs

cmd_vars == <<cmd_pc, cmd_files, cmd_config, cmd_compile_i, cmd_spawned,
              cmd_verdicts, cmd_cleaned, cmd_exit>>

VARIABLES
    hash_pc,        \* position in the part of command_gen that handles the hashes
    verify_hash,    \* the --verify-hash flag
    hash_stored,    \* hash.json exists when the run starts
    produced,       \* the files of the successful tests with their digests,
                    \* in the order of the loop
    official_testcase_hashes,   \* the dict loaded from hash.json
    testcase_hashes,            \* the dict the loop builds
    hash_printed,   \* what the verification printed
    hash_file,      \* the text written to hash.json
    hash_exit       \* the exit status of the run, "none" while it runs

hash_vars == <<hash_pc, verify_hash, hash_stored, produced,
               official_testcase_hashes, testcase_hashes, hash_printed,
               hash_file, hash_exit>>

VARIABLES
    rcp_recipe,     \* the testsets of the recipe file, in file order
    rcp_other,      \* the constants and validators of the recipe file
    rcp_parsed      \* what parse_recipe_data made of the recipe

names_vars == <<rcp_recipe, rcp_other, rcp_parsed>>

VARIABLES
    cst_constants,  \* ParserContext.constants
    cst_before,     \* the same before the last line was handled
    cst_context,    \* ParserContext.current_context
    cst_independent,\* the current subtask has its independent testset
    cst_extra,      \* extra_file of the current testset
    cst_line,       \* the last line handled
    cst_error       \* the ValueError that ended the parse, "none" without

const_vars == <<cst_constants, cst_before, cst_context, cst_independent,
                cst_extra, cst_line, cst_error>>

VARIABLES
    fs_pc,          \* position of command_gen on the test: gen, val, sol, chk, sum
    fs_test,        \* the recipe line and the configuration the test is run with
    fs_files,       \* the files on disk, as pairs of directory and name
    fs_access,      \* which stage worked on files of which directory
    fs_result,      \* the GenerationResult of the test
    fs_summary,     \* the codename was written to testcases/summary
    fs_hashes,      \* the keys of testcase_hashes
    fs_exc          \* the exception that ended the run, "none" without

files_vars == <<fs_pc, fs_test, fs_files, fs_access, fs_result, fs_summary, fs_hashes, fs_exc>>

VARIABLES
    cs_pc,          \* position inside compile_single
    cs_lang,        \* the language whose source extensions match, "none" without
    cs_procs,       \* the Process objects made by the loop, in order
    cs_exc,         \* the exception that left compile_single, "none" without
    cs_verdict      \* the verdict of the SingleCompilationResult

single_vars == <<cs_pc, cs_lang, cs_procs, cs_exc, cs_verdict>>

VARIABLES
    wo_pc,          \* position of a compile step: spawn, loop, drain, returned, raised
    wo_tool,        \* what the build tool still has to write, and whether it hangs
    wo_os,          \* the child: unborn, running, zombie, reaped
    wo_pipe,        \* the blocks sitting in the stdout and stderr pipes
    wo_got,         \* the blocks wait_for_outputs has read from each stream
    wo_elapsed,     \* seconds spent in select timeouts
    wo_timer,       \* the Timer of the Process: none, created, cancelled
    wo_verdict      \* the verdict of the CompilationResult

capture_vars == <<wo_pc, wo_tool, wo_os, wo_pipe, wo_got, wo_elapsed, wo_timer, wo_verdict>>

VARIABLES
    ps_line_num,    \* line_num, the number of the line being handled
    ps_context,     \* ParserContext.current_context
    ps_object,      \* ParserContext.current_object, by name, "None" for None
    ps_testsets,    \* the keys of recipe_data.testsets
    ps_subtasks,    \* the keys of recipe_data.subtasks
    ps_outcome      \* what parse_recipe_data has come to

parse_vars == <<ps_line_num, ps_context, ps_object, ps_testsets, ps_subtasks, ps_outcome>>

VARIABLES
    st_pc,          \* where the run of command_gen is
    st_verify_hash, \* --verify-hash was given
    st_hash_json,   \* hash.json: absent, or the tests whose files it lists
    st_before,      \* hash.json as the run found it
    st_dir,         \* the other entries of the testcases directory
    st_compiled,    \* the compile steps that succeeded
    st_cleaned,     \* clean_testcases was called
    st_i,           \* the tests the loop is through with
    st_testcase_hashes,\* the tests whose files the loop hashed
    st_exit         \* how the run ended, "none" while it runs

store_vars == <<st_pc, st_verify_hash, st_hash_json, st_before, st_dir, st_compiled, st_cleaned, st_i, st_testcase_hashes, st_exit>>

\* the state of a whole run of a command
top_vars == <<cmd_vars, hash_vars, names_vars, const_vars,
             files_vars,
             single_vars,
             capture_vars,
             parse_vars,
             store_vars>>

\* the state of the single steps
step_vars == <<val_vars, sol_vars, top_vars>>

\* what an action on the run of a command leaves alone
other_than_cmd == <<gen_vars, run_vars, val_vars, sol_vars, hash_vars, names_vars,
                    const_vars,
                    files_vars,
                    single_vars,
                    capture_vars,
                    parse_vars,
                    store_vars>>

\* what an action on the hashes leaves alone
other_than_hash == <<gen_vars, run_vars, val_vars, sol_vars, cmd_vars, names_vars,
                     const_vars,
                    files_vars,
                    single_vars,
                    capture_vars,
                    parse_vars,
                    store_vars>>

\* what a parse of the recipe leaves alone
other_than_names == <<gen_vars, run_vars, val_vars, sol_vars, cmd_vars, hash_vars,
                      const_vars,
                    files_vars,
                    single_vars,
                    capture_vars,
                    parse_vars,
                    store_vars>>

\* what the handler of a line leaves alone
other_than_const == <<gen_vars, run_vars, val_vars, sol_vars, cmd_vars, hash_vars,
                      names_vars,
                    files_vars,
                    single_vars,
                    capture_vars,
                    parse_vars,
                    store_vars>>

\* what a stage working on the files of a test leaves alone
other_than_files == <<gen_vars, run_vars, val_vars, sol_vars, cmd_vars, hash_vars, names_vars, const_vars,
                    single_vars,
                    capture_vars,
                    parse_vars,
                    store_vars>>

\* what an action on the single state leaves alone
other_than_single == <<gen_vars, run_vars, val_vars, sol_vars, cmd_vars, hash_vars, names_vars, const_vars, files_vars,
                    capture_vars,
                    parse_vars,
                    store_vars>>

\* what an action on the capture state leaves alone
other_than_capture == <<gen_vars, run_vars, val_vars, sol_vars, cmd_vars, hash_vars, names_vars, const_vars, files_vars, single_vars,
                    parse_vars,
                    store_vars>>

\* what an action on the parse state leaves alone
other_than_parse == <<gen_vars, run_vars, val_vars, sol_vars, cmd_vars, hash_vars, names_vars, const_vars, files_vars, single_vars, capture_vars,
                    store_vars>>

\* what an action on the store state leaves alone
other_than_store == <<gen_vars, run_vars, val_vars, sol_vars, cmd_vars, hash_vars, names_vars, const_vars, files_vars, single_vars, capture_vars, parse_vars>>

vars == <<config, pc, test, result, gen_procs, gen_i, generates_output,
          manual_output, writes, clobbered, solution_runs, checker_runs, summary,
          procs, run_pc, batch_size, batch_procs, remaining_pids,
          got_pid, exc, spawn_failure,
          val_pc, val_judge, val_cmds, val_fnf, val_i, val_started,
          val_alive, val_logs, val_result,
          sol_pc, sol_variant, sol_proc, sol_output, sol_checker,
          sol_feedback, sol_record,
          cmd_pc, cmd_files, cmd_config, cmd_compile_i, cmd_spawned,
          cmd_verdicts, cmd_cleaned, cmd_exit,
          hash_pc, verify_hash, hash_stored, produced,
          official_testcase_hashes, testcase_hashes, hash_printed,
          hash_file, hash_exit,
          rcp_recipe, rcp_other, rcp_parsed,
          cst_constants, cst_before, cst_context, cst_independent,
          cst_extra, cst_line, cst_error,
          fs_pc, fs_test, fs_files, fs_access, fs_result, fs_summary, fs_hashes, fs_exc,
          cs_pc, cs_lang, cs_procs, cs_exc, cs_verdict,
          wo_pc, wo_tool, wo_os, wo_pipe, wo_got, wo_elapsed, wo_timer, wo_verdict,
          ps_line_num, ps_context, ps_object, ps_testsets, ps_subtasks, ps_outcome,
          st_pc, st_verify_hash, st_hash_json, st_before, st_dir, st_compiled, st_cleaned, st_i, st_testcase_hashes, st_exit>>

Tests == 1..NumTests

Configs ==
    [problem_type : {"BATCH", "INTERACTIVE"},
     checker_type : {"DEFAULT", "CUSTOM"},
     check_forced_output : BOOLEAN,
     check_generated_output : BOOLEAN]

\* command_gen's run_checker / context.should_run_checker
run_checker ==
    /\ config.problem_type = "BATCH"
    /\ config.checker_type # "DEFAULT"
    /\ (config.check_forced_output \/ config.check_generated_output)

NoWrites == [s \in Slots |-> 0]

\* result.<slot> = v, with the bookkeeping of the assignment
Assign(r, w, c, slot, v) ==
    [res |-> [r EXCEPT ![slot] = v],
     writes |-> [w EXCEPT ![slot] = @ + 1],
     clobbered |-> IF r[slot] # "UNKNOWN" THEN c \cup {slot} ELSE c]

GenInit ==
    /\ config \in Configs
    /\ pc = "gen"
    /\ test = 1
    /\ result = GenerationResult
    /\ gen_procs = <<>>
    /\ gen_i = 0
    /\ generates_output = FALSE
    /\ manual_output = FALSE
    /\ writes = NoWrites
    /\ clobbered = {}
    /\ solution_runs = 0
    /\ checker_runs = 0
    /\ summary = <<>>

(* ---------------- GenerationStep.run_generator ------------------------ *)
\* what can go wrong on the file system while run_generator works:
\*   manual    - replace_with_manual finds no such manual file
\*   generator - replace_with_generator finds no such program, or a spawn
\*               raises FileNotFoundError
\*   extra     - a declared extra file is absent when it is moved
FsErrors == {"none", "manual", "generator", "extra"}

\* run_generator up to and including "result.input_generation = SUCCESS",
\* or up to the except FileNotFoundError clause
RunGenerator ==
    /\ pc = "gen"
    /\ \E np \in 1..MaxCommands, forced \in BOOLEAN, fs_error \in FsErrors,
          output_exists \in BOOLEAN :
       \E outs \in [1..np -> ProcOutcome] :
          /\ forced => np >= 2
          \* a cp that exits 0 has written the forced output into the sandbox
          /\ (forced /\ outs[1] = "ok") => output_exists
          /\ generates_output' = (output_exists /\ fs_error \in {"none", "extra"})
          /\ manual_output' = forced
          /\ LET fresh == [GenerationResult EXCEPT
                              !.is_output_forced = forced /\ fs_error # "manual"]
                 a == Assign(fresh, NoWrites, {}, "input_generation",
                             IF fs_error = "none" THEN "SUCCESS" ELSE "FAILED")
             IN /\ result' = a.res
                /\ writes' = a.writes
                /\ clobbered' = a.clobbered
                /\ gen_procs' = IF fs_error = "none" THEN outs ELSE <<>>
    /\ gen_i' = 1
    /\ pc' = "gen_status"
    /\ UNCHANGED <<config, test, solution_runs, checker_runs, summary>>
    /\ UNCHANGED <<run_vars, step_vars>>

\* one iteration of "for i, process in enumerate(generator_processes)"
CheckGeneratorStatus ==
    /\ pc = "gen_status"
    /\ gen_i <= Len(gen_procs)
    /\ LET o == gen_procs[gen_i]
           a == IF is_timedout(o)
                THEN Assign(result, writes, clobbered, "input_generation", "TIMEDOUT")
                ELSE IF status_nonzero(o)
                THEN Assign(result, writes, clobbered, "input_generation", "CRASHED")
                ELSE [res |-> result, writes |-> writes, clobbered |-> clobbered]
       IN /\ result' = a.res
          /\ writes' = a.writes
          /\ clobbered' = a.clobbered
    /\ gen_i' = gen_i + 1
    /\ UNCHANGED <<config, manual_output, pc, test, gen_procs, generates_output, solution_runs, checker_runs,
                   summary>>
    /\ UNCHANGED <<run_vars, step_vars>>

\* "if generates_output: result.output_generation = SKIPPED_SUCCESS; return"
FinishGenerator ==
    /\ pc = "gen_status"
    /\ gen_i > Len(gen_procs)
    /\ LET a == IF generates_output
                THEN Assign(result, writes, clobbered, "output_generation", "SKIPPED_SUCCESS")
                ELSE [res |-> result, writes |-> writes, clobbered |-> clobbered]
       IN /\ result' = a.res
          /\ writes' = a.writes
          /\ clobbered' = a.clobbered
    /\ pc' = "val"
    /\ UNCHANGED <<config, manual_output, test, gen_procs, gen_i, generates_output, solution_runs, checker_runs,
                   summary>>
    /\ UNCHANGED <<run_vars, step_vars>>

(* ---------------- ValidationStep.run_validator ------------------------ *)
\* the verdict of the validator loop from validator i on: the first
\* validator that does not pass decides, the rest is not run
RECURSIVE ValidatorVerdict(_, _)
ValidatorVerdict(outs, i) ==
    IF i > Len(outs) THEN "SUCCESS"
    ELSE IF is_timedout(outs[i]) THEN "TIMEDOUT"
    ELSE IF is_signaled_exit(outs[i]) THEN "CRASHED"
    ELSE IF outs[i] = "nonzero" THEN "FAILED"
    ELSE ValidatorVerdict(outs, i + 1)

\* run_validator: FileNotFoundError anywhere gives CRASHED
run_validator(outs, file_missing) ==
    IF file_missing THEN "CRASHED" ELSE ValidatorVerdict(outs, 1)

\* command_gen, "Run validator: skip if input_generation did not succeed"
RunValidation ==
    /\ pc = "val"
    /\ \E k \in 0..MaxValidators, file_missing \in BOOLEAN :
       \E outs \in [1..k -> ProcOutcome] :
          LET v == IF result.input_generation # "SUCCESS" THEN "SKIPPED"
                   ELSE run_validator(outs, file_missing)
              a == Assign(result, writes, clobbered, "input_validation", v)
          IN /\ result' = a.res
             /\ writes' = a.writes
             /\ clobbered' = a.clobbered
    /\ pc' = "ans"
    /\ UNCHANGED <<config, manual_output, test, gen_procs, gen_i, generates_output, solution_runs, checker_runs,
                   summary>>
    /\ UNCHANGED <<run_vars, step_vars>>

(* ---------------- command_gen: answer, checker, summary --------------- *)
\* a plausible slip: the forced answer is looked at before the validation
answer_branch_forced_first(r) ==
    IF r.output_generation = "SKIPPED_SUCCESS" THEN "keep"
    ELSE IF r.input_validation # "SUCCESS" THEN "skip"
    ELSE "run"

\* command_gen, "Run solution": which branch of the if / elif / else is taken
answer_branch(r) ==
    IF r.input_validation # "SUCCESS" THEN "skip"
    ELSE IF r.output_generation = "SKIPPED_SUCCESS" THEN "keep"
    ELSE "run"

\* command_gen, "Run solution": skipped after a failed validation, kept
\* when the generator produced the output, else the model solution runs
RunAnswer ==
    /\ pc = "ans"
    /\ IF answer_branch(result) = "skip"
       THEN LET a == Assign(result, writes, clobbered, "output_generation", "SKIPPED")
            IN /\ result' = a.res
               /\ writes' = a.writes
               /\ clobbered' = a.clobbered
               /\ pc' = "chk"
               /\ UNCHANGED solution_runs
       ELSE IF answer_branch(result) = "keep"
       THEN /\ pc' = "chk"
            /\ UNCHANGED <<result, writes, clobbered, solution_runs>>
       ELSE \E verdict \in SolutionVerdicts(config.problem_type) :
               /\ solution_runs' = solution_runs + 1
               /\ IF eval_outcome_to_run_outcome(verdict) = "RAISE"
                  THEN /\ pc' = "aborted"
                       /\ UNCHANGED <<result, writes, clobbered>>
                  ELSE LET a == Assign(result, writes, clobbered, "output_generation",
                                       eval_outcome_to_run_outcome(verdict))
                       IN /\ result' = a.res
                          /\ writes' = a.writes
                          /\ clobbered' = a.clobbered
                          /\ pc' = "chk"
    /\ UNCHANGED <<config, manual_output, test, gen_procs, gen_i, generates_output, checker_runs, summary>>
    /\ UNCHANGED <<run_vars, step_vars>>

\* a plausible slip: the forced answer is checked under the policy for
\* generated answers
SkipCheckByPolicy_GeneratedOnly(r) == ~config.check_generated_output

\* the checker policy of command_gen: TRUE when the answer of this test is
\* not to be checked (forced answer / generated answer, by configuration)
SkipCheckByPolicy(r) ==
    \/ (r.is_output_forced /\ ~config.check_forced_output)
    \/ (~r.is_output_forced /\ ~config.check_generated_output)

\* command_gen, "Run checker"
RunCheckerStage ==
    /\ pc = "chk"
    /\ IF run_checker
       THEN IF \/ result.output_generation \notin {"SUCCESS", "SKIPPED_SUCCESS"}
               \/ result.input_validation \notin {"SUCCESS", "SKIPPED_SUCCESS"}
            THEN LET a == Assign(result, writes, clobbered, "output_validation", "SKIPPED")
                 IN /\ result' = a.res
                    /\ writes' = a.writes
                    /\ clobbered' = a.clobbered
                    /\ UNCHANGED checker_runs
            ELSE IF SkipCheckByPolicy(result)
            THEN LET a == Assign(result, writes, clobbered, "output_validation",
                                 "SKIPPED_SUCCESS")
                 IN /\ result' = a.res
                    /\ writes' = a.writes
                    /\ clobbered' = a.clobbered
                    /\ UNCHANGED checker_runs
            ELSE \E verdict \in CheckerVerdicts :
                    LET a == Assign(result, writes, clobbered, "output_validation",
                                    eval_outcome_to_grade_outcome(verdict))
                    IN /\ result' = a.res
                       /\ writes' = a.writes
                       /\ clobbered' = a.clobbered
                       /\ checker_runs' = checker_runs + 1
       ELSE LET a == Assign(result, writes, clobbered, "output_validation",
                            "SKIPPED_SUCCESS")
            IN /\ result' = a.res
               /\ writes' = a.writes
               /\ clobbered' = a.clobbered
               /\ UNCHANGED checker_runs
    /\ pc' = "sum"
    /\ UNCHANGED <<config, manual_output, test, gen_procs, gen_i, generates_output, solution_runs, summary>>
    /\ UNCHANGED <<run_vars, step_vars>>

\* a plausible slip: the codename is written whatever the result
WriteSummary_Unconditional ==
    /\ pc = "sum"
    /\ summary' = Append(summary, test)
    /\ pc' = "next"
    /\ UNCHANGED <<config, manual_output, test, result, gen_procs, gen_i, generates_output, writes, clobbered,
                   solution_runs, checker_runs>>
    /\ UNCHANGED <<run_vars, step_vars>>

\* command_gen, "if result: testcases_summary.write(code_name)"
WriteSummary ==
    /\ pc = "sum"
    /\ summary' = IF GenerationResultBool(result) THEN Append(summary, test) ELSE summary
    /\ pc' = "next"
    /\ UNCHANGED <<config, manual_output, test, result, gen_procs, gen_i, generates_output, writes, clobbered,
                   solution_runs, checker_runs>>
    /\ UNCHANGED <<run_vars, step_vars>>

\* a plausible slip: the loop moves on with the check of the test outstanding
NextTest_BeforeCheck ==
    /\ pc \in {"chk", "next"}
    /\ test < NumTests
    /\ test' = test + 1
    /\ pc' = "gen"
    /\ result' = GenerationResult
    /\ gen_procs' = <<>>
    /\ gen_i' = 0
    /\ generates_output' = FALSE
    /\ manual_output' = FALSE
    /\ writes' = NoWrites
    /\ clobbered' = {}
    /\ solution_runs' = 0
    /\ checker_runs' = 0
    /\ UNCHANGED <<config, summary>>
    /\ UNCHANGED <<run_vars, step_vars>>

\* "for test in testset.tests": the loop takes the next test of the recipe;
\* the result and the generator processes of the previous test are dropped
NextTest ==
    /\ pc = "next"
    /\ test < NumTests
    /\ test' = test + 1
    /\ pc' = "gen"
    /\ result' = GenerationResult
    /\ gen_procs' = <<>>
    /\ gen_i' = 0
    /\ generates_output' = FALSE
    /\ manual_output' = FALSE
    /\ writes' = NoWrites
    /\ clobbered' = {}
    /\ solution_runs' = 0
    /\ checker_runs' = 0
    /\ UNCHANGED <<config, summary>>
    /\ UNCHANGED <<run_vars, step_vars>>

\* the loop ends after the last test; summary is closed
EndOfTests ==
    /\ pc = "next"
    /\ test = NumTests
    /\ pc' = "finished"
    /\ UNCHANGED <<config, manual_output, test, result, gen_procs, gen_i, generates_output, writes, clobbered,
                   solution_runs, checker_runs, summary>>
    /\ UNCHANGED <<run_vars, step_vars>>

\* the pipeline is through with the current test: result is final
TestDone == pc \in {"sum", "next", "finished"}

(* ======================= internal/runner.py =========================== *)
Range(seq) == {seq[k] : k \in 1..Len(seq)}

\* slots for the children of the run: a slot is taken from the spawn of a
\* child until the child is reaped and its Process object is dropped
Procs == 1..MaxProcs

\* wall-clock ticks are counted up to the watchdog's deadline
MaxElapsed == TimeLimit + WatchdogGrace

\* a Process object that does not exist yet
NoProcess ==
    [os |-> "unborn", returncode |-> "None", recorded |-> 0, signalled |-> {},
     timer |-> "none", elapsed |-> 0]

\* Process.__init__: the child runs, the Timer object is created
NewProcess ==
    [os |-> "running", returncode |-> "None", recorded |-> 0, signalled |-> {},
     timer |-> "created", elapsed |-> 0]

\* the Process objects of a finished step go out of scope; a child that
\* was not reaped stays a child of the run
Forget(ps, old) ==
    [p \in DOMAIN ps |->
        IF p \in old /\ ps[p].os = "reaped" THEN NoProcess ELSE ps[p]]

\* Process.post_wait: record status and rusage, set returncode, stop the timer
post_wait(pr) ==
    [pr EXCEPT !.recorded = @ + 1, !.returncode = "set", !.timer = "cancelled"]

\* Popen.kill as Process inherits it: poll first (which reaps a child that
\* has exited, or finds it gone), then SIGKILL a child still running;
\* died tells whether the child is dead by the time kill returns
PopenKill(pr, who, died) ==
    IF pr.returncode # "None" THEN pr
    ELSE IF pr.os = "zombie" THEN [pr EXCEPT !.os = "reaped", !.returncode = "set"]
    ELSE IF pr.os = "reaped" THEN [pr EXCEPT !.returncode = "set"]
    ELSE [pr EXCEPT !.signalled = @ \cup {who},
                    !.os = IF died THEN "zombie" ELSE "running"]

\* Process.wait4: one non-blocking os.wait4 on the child's pid
wait4(pr) ==
    IF pr.returncode = "None" /\ pr.os = "zombie"
    THEN post_wait([pr EXCEPT !.os = "reaped"])
    ELSE pr

\* a plausible slip: safe_kill only tries to reap, it sends no signal
safe_kill_without_kill(pr, died) ==
    [wait4(pr) EXCEPT !.timer = "cancelled"]

\* Process.safe_kill
safe_kill(pr, died) ==
    LET after == IF pr.returncode = "None"
                 THEN wait4(PopenKill(pr, "safe_kill", died))
                 ELSE pr
    IN [after EXCEPT !.timer = "cancelled"]

\* Process.timer_kill, the watchdog's callback
timer_kill(pr) ==
    IF pr.returncode = "None" THEN PopenKill(pr, "timer", FALSE) ELSE pr

\* Process.wall_clock_time_sec > time_limit_sec, read after the reap
is_wall_clock_timedout(pr) == pr.elapsed > TimeLimit

RunIdle ==
    /\ procs = [p \in Procs |-> NoProcess]
    /\ run_pc = "idle"
    /\ batch_size = 0
    /\ batch_procs = <<>>
    /\ remaining_pids = {}
    /\ got_pid = 0
    /\ exc = "none"
    /\ spawn_failure = "none"

RunInit ==
    /\ procs = [p \in Procs |-> NoProcess]
    /\ run_pc = "start"
    /\ batch_size = 0
    /\ batch_procs = <<>>
    /\ remaining_pids = {}
    /\ got_pid = 0
    /\ exc = "none"
    /\ spawn_failure = "none"

\* the pid the next Process gets
NextPid == CHOOSE p \in Procs : procs[p].os = "unborn" /\ \A q \in Procs : q < p => procs[q].os # "unborn"

(* ------------- compile step: Process + wait_for_outputs -------------- *)
\* make_compile_wildcard: compile_process = Process([MAKE, ...])
SpawnCompile ==
    /\ run_pc = "start"
    /\ procs' = [procs EXCEPT ![1] = NewProcess]
    /\ run_pc' = "compile_wait"
    /\ UNCHANGED <<batch_size, batch_procs, remaining_pids, got_pid, exc,
                   spawn_failure>>
    /\ UNCHANGED <<gen_vars, step_vars>>

\* wait_for_outputs: one turn of "while proc.wait4() is None"
PollCompile ==
    /\ run_pc = "compile_wait"
    /\ procs' = [procs EXCEPT ![1] = wait4(@)]
    /\ run_pc' = IF wait4(procs[1]).returncode = "None"
                 THEN "compile_wait" ELSE "compile_read"
    /\ UNCHANGED <<batch_size, batch_procs, remaining_pids, got_pid, exc,
                   spawn_failure>>
    /\ UNCHANGED <<gen_vars, step_vars>>

\* the rest of wait_for_outputs, the CompilationResult of
\* make_compile_wildcard (FAILED on a non-zero status, TIMEDOUT on a time
\* limit), and Formatter.print_compile_string_with_exit: exit(1) unless SUCCESS
FinishCompile ==
    /\ run_pc = "compile_read"
    /\ \E status_is_zero, is_cpu_timedout \in BOOLEAN :
          IF ~status_is_zero \/ is_cpu_timedout \/ is_wall_clock_timedout(procs[1])
          THEN /\ exc' = "SystemExit"
               /\ run_pc' = "exited"
               /\ UNCHANGED <<procs, batch_size>>
          ELSE /\ run_pc' = "spawn"
               /\ batch_size' \in 1..MaxBatch
               /\ procs' = Forget(procs, {1})
               /\ UNCHANGED exc
    /\ UNCHANGED <<batch_procs, remaining_pids, got_pid, spawn_failure>>
    /\ UNCHANGED <<gen_vars, step_vars>>

\* wait_for_outputs, "except KeyboardInterrupt: proc.safe_kill(); raise"
InterruptCompile ==
    /\ run_pc \in {"compile_wait", "compile_read"}
    /\ \E died \in BOOLEAN : procs' = [procs EXCEPT ![1] = safe_kill(@, died)]
    /\ exc' = "KeyboardInterrupt"
    /\ run_pc' = "exited"
    /\ UNCHANGED <<batch_size, batch_procs, remaining_pids, got_pid,
                   spawn_failure>>
    /\ UNCHANGED <<gen_vars, step_vars>>

(* ------------- run_generator: the spawn loop -------------------------- *)
\* "proc = Process(command, ...)" succeeds; generator_processes.append(proc)
SpawnOk ==
    /\ run_pc = "spawn"
    /\ Len(batch_procs) < batch_size
    /\ \E p \in Procs : procs[p].os = "unborn"
    /\ procs' = [procs EXCEPT ![NextPid] = NewProcess]
    /\ batch_procs' = Append(batch_procs, NextPid)
    /\ UNCHANGED <<run_pc, batch_size, remaining_pids, got_pid, exc,
                   spawn_failure>>
    /\ UNCHANGED <<gen_vars, step_vars>>

\* Process(...) raises FileNotFoundError: the inner except kills the
\* processes spawned so far and re-raises; the outer except turns it into
\* FAILED and run_generator returns
SpawnFileNotFound ==
    /\ run_pc = "spawn"
    /\ Len(batch_procs) < batch_size
    /\ \E died \in [Range(batch_procs) -> BOOLEAN] :
          procs' = [p \in Procs |->
                       IF p \in Range(batch_procs)
                       THEN safe_kill(procs[p], died[p]) ELSE procs[p]]
    /\ spawn_failure' = "FileNotFoundError"
    /\ run_pc' = "returned"
    /\ UNCHANGED <<batch_size, batch_procs, remaining_pids, got_pid, exc>>
    /\ UNCHANGED <<gen_vars, step_vars>>

\* Process(...) raises another OSError (PermissionError, fork failure):
\* no except clause of run_generator matches, the error leaves the run
SpawnOSError ==
    /\ run_pc = "spawn"
    /\ Len(batch_procs) < batch_size
    /\ spawn_failure' = "OSError"
    /\ exc' = "OSError"
    /\ run_pc' = "exited"
    /\ UNCHANGED <<procs, batch_size, batch_procs, remaining_pids, got_pid>>
    /\ UNCHANGED <<gen_vars, step_vars>>

\* a KeyboardInterrupt between the first spawn and wait_procs: run_generator
\* has no handler for it
InterruptSpawn ==
    /\ run_pc = "spawn"
    /\ exc' = "KeyboardInterrupt"
    /\ run_pc' = "exited"
    /\ UNCHANGED <<procs, batch_size, batch_procs, remaining_pids, got_pid,
                   spawn_failure>>
    /\ UNCHANGED <<gen_vars, step_vars>>

(* ------------- wait_procs --------------------------------------------- *)
\* wait_procs(generator_processes): pid_to_proc and remaining_pids are built
StartWait ==
    /\ run_pc = "spawn"
    /\ Len(batch_procs) = batch_size
    /\ remaining_pids' = Range(batch_procs)
    /\ run_pc' = "wait"
    /\ UNCHANGED <<procs, batch_size, batch_procs, got_pid, exc, spawn_failure>>
    /\ UNCHANGED <<gen_vars, step_vars>>

\* os.wait3(0) returns: it reaps whichever child of the run has terminated
Wait3 ==
    /\ run_pc = "wait"
    /\ remaining_pids # {}
    /\ \E p \in Procs :
          /\ procs[p].os = "zombie"
          /\ procs' = [procs EXCEPT ![p].os = "reaped"]
          /\ got_pid' = p
    /\ run_pc' = "got_pid"
    /\ UNCHANGED <<batch_size, batch_procs, remaining_pids, exc, spawn_failure>>
    /\ UNCHANGED <<gen_vars, step_vars>>

\* "assert pid in remaining_pids; pid_to_proc[pid].post_wait(...);
\*  remaining_pids.remove(pid)"
DispatchPid ==
    /\ run_pc = "got_pid"
    /\ IF got_pid \in remaining_pids
       THEN /\ procs' = [procs EXCEPT ![got_pid] = post_wait(@)]
            /\ remaining_pids' = remaining_pids \ {got_pid}
            /\ run_pc' = "wait"
            /\ UNCHANGED exc
       ELSE /\ exc' = "AssertionError"
            /\ run_pc' = "exited"
            /\ UNCHANGED <<procs, remaining_pids>>
    /\ got_pid' = 0
    /\ UNCHANGED <<batch_size, batch_procs, spawn_failure>>
    /\ UNCHANGED <<gen_vars, step_vars>>

\* a plausible slip: the loop ends as soon as one child has been recorded
WaitReturn_AfterFirst ==
    /\ run_pc = "wait"
    /\ remaining_pids # Range(batch_procs) \/ remaining_pids = {}
    /\ run_pc' = "returned"
    /\ UNCHANGED <<procs, batch_size, batch_procs, remaining_pids, got_pid,
                   exc, spawn_failure>>
    /\ UNCHANGED <<gen_vars, step_vars>>

\* "while remaining_pids" ends: wait_procs and then run_generator return
WaitReturn ==
    /\ run_pc = "wait"
    /\ remaining_pids = {}
    /\ run_pc' = "returned"
    /\ UNCHANGED <<procs, batch_size, batch_procs, remaining_pids, got_pid,
                   exc, spawn_failure>>
    /\ UNCHANGED <<gen_vars, step_vars>>

\* "except (KeyboardInterrupt, InterruptedError):
\*      for pid in remaining_pids: pid_to_proc[pid].safe_kill()
\*      raise"
InterruptWait ==
    /\ run_pc \in {"wait", "got_pid"}
    /\ \E died \in [remaining_pids -> BOOLEAN] :
          procs' = [p \in Procs |->
                       IF p \in remaining_pids
                       THEN safe_kill(procs[p], died[p]) ELSE procs[p]]
    /\ exc' \in {"KeyboardInterrupt", "InterruptedError"}
    /\ run_pc' = "exited"
    /\ UNCHANGED <<batch_size, batch_procs, remaining_pids, got_pid,
                   spawn_failure>>
    /\ UNCHANGED <<gen_vars, step_vars>>

(* ------------- the run goes on, the children live --------------------- *)
\* command_gen's loop: the next test's pipeline
NextBatch ==
    /\ run_pc = "returned"
    /\ batch_size' \in 1..MaxBatch
    /\ batch_procs' = <<>>
    /\ remaining_pids' = {}
    /\ spawn_failure' = "none"
    /\ procs' = Forget(procs, Range(batch_procs))
    /\ run_pc' = "spawn"
    /\ UNCHANGED <<got_pid, exc>>
    /\ UNCHANGED <<gen_vars, step_vars>>

\* the run completes normally after the last test
FinishRun ==
    /\ run_pc = "returned"
    /\ run_pc' = "exited"
    /\ UNCHANGED <<procs, batch_size, batch_procs, remaining_pids, got_pid,
                   exc, spawn_failure>>
    /\ UNCHANGED <<gen_vars, step_vars>>

\* a running child terminates: by itself, or from a SIGKILL it was sent
ChildExit ==
    /\ run_pc # "exited"
    /\ \E p \in Procs :
          /\ procs[p].os = "running"
          /\ procs' = [procs EXCEPT ![p].os = "zombie"]
    /\ UNCHANGED <<run_pc, batch_size, batch_procs, remaining_pids, got_pid,
                   exc, spawn_failure>>
    /\ UNCHANGED <<gen_vars, step_vars>>

\* one tick of wall-clock time passes for every running child; a Timer
\* that was started and reaches time_limit + 1.0 runs timer_kill
Tick ==
    /\ run_pc # "exited"
    /\ \E p \in Procs : procs[p].os = "running" /\ procs[p].elapsed < MaxElapsed
    /\ procs' = [p \in Procs |->
                    IF procs[p].os = "running" /\ procs[p].elapsed < MaxElapsed
                    THEN LET pr == [procs[p] EXCEPT !.elapsed = @ + 1]
                         IN IF pr.timer = "started"
                               /\ pr.elapsed = TimeLimit + WatchdogGrace
                            THEN [timer_kill(pr) EXCEPT !.timer = "fired"]
                            ELSE pr
                    ELSE procs[p]]
    /\ UNCHANGED <<run_pc, batch_size, batch_procs, remaining_pids, got_pid,
                   exc, spawn_failure>>
    /\ UNCHANGED <<gen_vars, step_vars>>

(* ============ ValidationStep.run_validator, step by step ============== *)
\* JudgeConvention
JudgeConvention == {"ICPC", "CMS", "TIOJ_OLD", "TIOJ_NEW"}

\* what a validator can leave on its stderr, line by line
StderrTexts == {<<>>, <<"reading input", "line 3: value out of range">>}

\* how the run of one validator can end, as the Process properties report
\* it: exit_code is 0 for a child ended by a signal
ValidatorRuns ==
    {r \in [is_timedout : BOOLEAN, is_signaled_exit : BOOLEAN,
            exit_code : {0, 1, 42}, stderr : StderrTexts] :
        r.is_signaled_exit => r.exit_code = 0}

\* files that can be missing: a validator program (replace_with_validator,
\* Process), or the input / an extra input in testcases (shutil.copy)
ValFileErrors == {"none", "validator", "input"}

\* a plausible slip: the two conventions are swapped
expected_exitcode_swapped == IF val_judge = "ICPC" THEN 0 ELSE 42

\* "expected_exitcode = 42 if judge is JudgeConvention.ICPC else 0"
expected_exitcode == IF val_judge = "ICPC" THEN 42 ELSE 0

\* lines[-1].rstrip('\n') if lines else None, then the choice of the reason
failed_reason(lines) ==
    IF lines = <<>> THEN "expecting exitcode" ELSE lines[Len(lines)]

ValInit ==
    /\ val_pc = "start"
    /\ val_judge \in JudgeConvention
    /\ \E k \in 0..MaxValidators : val_cmds \in [1..k -> ValidatorRuns]
    /\ val_fnf \in ValFileErrors
    /\ val_i = 0
    /\ val_started = <<>>
    /\ val_alive = {}
    /\ val_logs = {}
    /\ val_result = [input_validation |-> "UNKNOWN", reason |-> ""]

\* "for command in commands: command[0] = replace_with_validator(...)";
\* a FileNotFoundError goes to the outer except: CRASHED
ValPreprocess ==
    /\ val_pc = "start"
    /\ IF val_fnf = "validator" /\ val_cmds # <<>>
       THEN /\ val_result' = [input_validation |-> "CRASHED", reason |-> "not found"]
            /\ val_pc' = "done"
            /\ UNCHANGED val_i
       ELSE /\ val_pc' = "loop"
            /\ val_i' = 1
            /\ UNCHANGED val_result
    /\ UNCHANGED <<val_judge, val_cmds, val_fnf, val_started, val_alive, val_logs>>
    /\ UNCHANGED <<gen_vars, run_vars, sol_vars, top_vars>>

\* one turn of the loop up to Process(...): the input is copied, then the
\* validator is spawned; a missing input raises FileNotFoundError
ValSpawn ==
    /\ val_pc = "loop"
    /\ val_i <= Len(val_cmds)
    /\ IF val_fnf = "input"
       THEN /\ val_result' = [input_validation |-> "CRASHED", reason |-> "not found"]
            /\ val_pc' = "done"
            /\ UNCHANGED <<val_started, val_alive>>
       ELSE /\ val_started' = Append(val_started, val_i)
            /\ val_alive' = val_alive \cup {val_i}
            /\ val_pc' = "wait"
            /\ UNCHANGED val_result
    /\ UNCHANGED <<val_judge, val_cmds, val_fnf, val_i, val_logs>>
    /\ UNCHANGED <<gen_vars, run_vars, sol_vars, top_vars>>

\* wait_procs([validator]) returns; the copies are removed and the stdout
\* and stderr files are moved to logs_generation
ValWait ==
    /\ val_pc = "wait"
    /\ val_alive' = val_alive \ {val_i}
    /\ val_logs' = val_logs \cup {val_i}
    /\ val_pc' = "judge"
    /\ UNCHANGED <<val_judge, val_cmds, val_fnf, val_i, val_started, val_result>>
    /\ UNCHANGED <<gen_vars, run_vars, sol_vars, top_vars>>

\* a plausible slip: a failed validator is noted and the loop goes on
ValJudge_KeepsGoing ==
    /\ val_pc = "judge"
    /\ LET v == val_cmds[val_i]
       IN IF v.is_timedout
          THEN val_result' = [input_validation |-> "TIMEDOUT", reason |-> "timed-out"]
          ELSE IF v.is_signaled_exit
          THEN val_result' = [input_validation |-> "CRASHED", reason |-> "aborted with signal"]
          ELSE IF v.exit_code # expected_exitcode
          THEN val_result' = [input_validation |-> "FAILED",
                              reason |-> failed_reason(v.stderr)]
          ELSE UNCHANGED val_result
    /\ val_i' = val_i + 1
    /\ val_pc' = "loop"
    /\ UNCHANGED <<val_judge, val_cmds, val_fnf, val_started, val_alive, val_logs>>
    /\ UNCHANGED <<gen_vars, run_vars, sol_vars, top_vars>>

\* "Check if validator succeed": the if / elif chain, each branch returns
ValJudge ==
    /\ val_pc = "judge"
    /\ LET v == val_cmds[val_i]
       IN IF v.is_timedout
          THEN /\ val_result' = [input_validation |-> "TIMEDOUT", reason |-> "timed-out"]
               /\ val_pc' = "done"
               /\ UNCHANGED val_i
          ELSE IF v.is_signaled_exit
          THEN /\ val_result' = [input_validation |-> "CRASHED",
                                 reason |-> "aborted with signal"]
               /\ val_pc' = "done"
               /\ UNCHANGED val_i
          ELSE IF v.exit_code # expected_exitcode
          THEN /\ val_result' = [input_validation |-> "FAILED",
                                 reason |-> failed_reason(v.stderr)]
               /\ val_pc' = "done"
               /\ UNCHANGED val_i
          ELSE /\ val_i' = val_i + 1
               /\ val_pc' = "loop"
               /\ UNCHANGED val_result
    /\ UNCHANGED <<val_judge, val_cmds, val_fnf, val_started, val_alive, val_logs>>
    /\ UNCHANGED <<gen_vars, run_vars, sol_vars, top_vars>>

\* the loop is over: "result.input_validation = SUCCESS; return result"
ValSuccess ==
    /\ val_pc = "loop"
    /\ val_i > Len(val_cmds)
    /\ val_result' = [val_result EXCEPT !.input_validation = "SUCCESS"]
    /\ val_pc' = "done"
    /\ UNCHANGED <<val_judge, val_cmds, val_fnf, val_i, val_started, val_alive, val_logs>>
    /\ UNCHANGED <<gen_vars, run_vars, sol_vars, top_vars>>

(* ------- run_solution (batch, interactive) and run_checker ------------ *)
\* signal numbers of signal.SIGXCPU, signal.SIGXFSZ, and one other signal
SIGXCPU == 24
SIGXFSZ == 25
SIGSEGV == 11

\* what a reaped solution reports: times and peak memory at or over the
\* limit, exit_signal (0 if not signalled), exit_code (0 if signalled)
SolutionRuns ==
    {r \in [cpu_time : {TimeLimit, TimeLimit + 1},
            wall_clock_time : {TimeLimit, TimeLimit + 1},
            max_rss : {MemoryLimit, MemoryLimit + 1},
            exit_signal : {0, SIGXFSZ, SIGXCPU, SIGSEGV},
            exit_code : {0, 1}] :
        r.exit_signal # 0 => r.exit_code = 0}

\* what a reaped interactor or checker reports
CheckerRuns ==
    {r \in [is_timedout : BOOLEAN, is_signaled_exit : BOOLEAN,
            exit_code : {0, 1, 42}] :
        r.is_signaled_exit => r.exit_code = 0}

\* the output file of the solution: moved away by the solution, empty, or
\* holding an answer
OutputFiles == {"missing", "empty", "nonempty"}

\* judgemessage.txt: not written, or its lines
FeedbackFiles ==
    {[is_file |-> FALSE, lines |-> <<>>],
     [is_file |-> TRUE, lines |-> <<>>],
     [is_file |-> TRUE, lines |-> <<"wrong answer at token 1", "expected 3">>]}

\* "if checker_feedback_file.is_file(): ... f.readline().strip()" on a
\* reason that is still ""
first_line(f) == IF ~f.is_file \/ f.lines = <<>> THEN "" ELSE f.lines[1]

\* EvaluationResult(verdict=RUN_SUCCESS, ...)
NewRecord == [verdict |-> "RUN_SUCCESS", checker_reason |-> "", checker_run |-> FALSE]

SolInit ==
    /\ sol_pc = "run"
    /\ sol_variant \in {"BATCH", "INTERACTIVE"}
    /\ sol_proc \in SolutionRuns
    /\ sol_output \in OutputFiles
    /\ sol_checker \in CheckerRuns
    /\ sol_feedback \in FeedbackFiles
    /\ sol_record = NewRecord

\* a plausible slip: the wall-clock time is looked at before the CPU time
solution_verdict_wall_first(s) ==
    IF s.wall_clock_time > TimeLimit
    THEN [verdict |-> "TIMEOUT_WALL", checker_reason |-> ""]
    ELSE IF s.cpu_time > TimeLimit
    THEN [verdict |-> "TIMEOUT", checker_reason |-> ""]
    ELSE IF s.exit_signal = SIGXFSZ
    THEN [verdict |-> "OUTPUT_LIMIT", checker_reason |-> ""]
    ELSE IF s.exit_signal = SIGXCPU
    THEN [verdict |-> "TIMEOUT", checker_reason |-> ""]
    ELSE IF s.exit_signal # 0
    THEN [verdict |-> "RUNERROR_SIGNAL", checker_reason |-> "Execution killed by signal"]
    ELSE IF s.exit_code # 0
    THEN [verdict |-> "RUNERROR_EXITCODE", checker_reason |-> "Execution exited with exit code"]
    ELSE [verdict |-> "RUN_SUCCESS", checker_reason |-> ""]

\* the verdict chain on the solution process, shared by both variants:
\* the verdict and the reason it sets, RUN_SUCCESS if no branch is taken
solution_verdict(s) ==
    IF s.cpu_time > TimeLimit
    THEN [verdict |-> "TIMEOUT", checker_reason |-> ""]
    ELSE IF s.wall_clock_time > TimeLimit
    THEN [verdict |-> "TIMEOUT_WALL", checker_reason |-> ""]
    ELSE IF s.exit_signal = SIGXFSZ
    THEN [verdict |-> "OUTPUT_LIMIT", checker_reason |-> ""]
    ELSE IF s.exit_signal = SIGXCPU
    THEN [verdict |-> "TIMEOUT", checker_reason |-> ""]
    ELSE IF s.exit_signal # 0
    THEN [verdict |-> "RUNERROR_SIGNAL", checker_reason |-> "Execution killed by signal"]
    ELSE IF s.exit_code # 0
    THEN [verdict |-> "RUNERROR_EXITCODE", checker_reason |-> "Execution exited with exit code"]
    ELSE [verdict |-> "RUN_SUCCESS", checker_reason |-> ""]

\* BatchSolutionStep.run_solution after wait_procs([solution]), with
\* store_output given as command_gen gives it
BatchRunSolution ==
    /\ sol_pc = "run"
    /\ sol_variant = "BATCH"
    /\ LET no_output_file == sol_output = "missing"
           v == solution_verdict(sol_proc)
       IN sol_record' =
            IF no_output_file
            THEN [sol_record EXCEPT !.verdict = "NO_FILE"]
            ELSE [sol_record EXCEPT !.verdict = v.verdict,
                                    !.checker_reason = v.checker_reason]
    /\ sol_pc' = "ran"
    /\ UNCHANGED <<sol_variant, sol_proc, sol_output, sol_checker, sol_feedback>>
    /\ UNCHANGED <<gen_vars, run_vars, val_vars, top_vars>>

\* the interactive chain with the interactor looked at after the solution
interactive_verdict_solution_first(s, interactor, feedback) ==
    LET v == solution_verdict(s)
    IN IF v.verdict # "RUN_SUCCESS"
       THEN v
       ELSE IF interactor.is_timedout
       THEN [verdict |-> "CHECKER_TIMEDOUT", checker_reason |-> ""]
       ELSE IF interactor.is_signaled_exit
       THEN [verdict |-> "CHECKER_CRASHED", checker_reason |-> ""]
       ELSE IF interactor.exit_code = 42
       THEN [verdict |-> "ACCEPTED", checker_reason |-> ""]
       ELSE [verdict |-> "WRONG", checker_reason |-> first_line(feedback)]

\* "First, we check if the interactor crashed ... else, we check if
\* solution executed successfully ... now, we can check if solution is
\* actually correct"
interactive_verdict(s, interactor, feedback) ==
    IF interactor.is_timedout
    THEN [verdict |-> "CHECKER_TIMEDOUT", checker_reason |-> ""]
    ELSE IF interactor.is_signaled_exit
    THEN [verdict |-> "CHECKER_CRASHED", checker_reason |-> ""]
    ELSE LET v == solution_verdict(s)
         IN IF v.verdict # "RUN_SUCCESS"
            THEN v
            ELSE IF interactor.exit_code = 42
            THEN [verdict |-> "ACCEPTED", checker_reason |-> ""]
            ELSE [verdict |-> "WRONG", checker_reason |-> first_line(feedback)]

\* InteractiveICPCSolutionStep.run_solution after
\* wait_procs([solution, interactor])
InteractiveRunSolution ==
    /\ sol_pc = "run"
    /\ sol_variant = "INTERACTIVE"
    /\ LET v == interactive_verdict(sol_proc, sol_checker, sol_feedback)
       IN sol_record' = [sol_record EXCEPT !.verdict = v.verdict,
                                           !.checker_reason = v.checker_reason]
    /\ sol_pc' = "ran"
    /\ UNCHANGED <<sol_variant, sol_proc, sol_output, sol_checker, sol_feedback>>
    /\ UNCHANGED <<gen_vars, run_vars, val_vars, top_vars>>

\* a plausible slip: the checker is taken to accept with exit code 0
checker_verdict_exit_zero(checker, output) ==
    IF checker.is_timedout THEN "CHECKER_TIMEDOUT"
    ELSE IF checker.is_signaled_exit THEN "CHECKER_CRASHED"
    ELSE IF checker.exit_code = 0 THEN "ACCEPTED"
    ELSE IF output = "empty" THEN "NO_OUTPUT"
    ELSE "WRONG"

\* the if / elif chain at the end of run_checker
checker_verdict(checker, output) ==
    IF checker.is_timedout THEN "CHECKER_TIMEDOUT"
    ELSE IF checker.is_signaled_exit THEN "CHECKER_CRASHED"
    ELSE IF checker.exit_code = 42 THEN "ACCEPTED"
    ELSE IF output = "empty" THEN "NO_OUTPUT"
    ELSE "WRONG"

\* ICPCCheckerStep.run_checker on the record of run_solution
RunChecker ==
    /\ sol_pc = "ran"
    /\ IF sol_record.verdict # "RUN_SUCCESS"
       THEN sol_record' = [sol_record EXCEPT !.checker_run = FALSE]
       ELSE sol_record' =
              [sol_record EXCEPT
                 !.verdict = checker_verdict(sol_checker, sol_output),
                 !.checker_reason = first_line(sol_feedback)]
    /\ sol_pc' = "done"
    /\ UNCHANGED <<sol_variant, sol_proc, sol_output, sol_checker, sol_feedback>>
    /\ UNCHANGED <<gen_vars, run_vars, val_vars, top_vars>>

(* ------------- a run of "tmt gen": main, TMTContext, command_gen ------- *)
\* how a file that is parsed at start-up can be: readable and valid,
\* not there (or unreadable), not parseable, parseable with a bad value
FileStates == {"ok", "missing", "malformed", "invalid_value"}

\* CompilationOutcome
CompilationOutcome == {"SUCCESS", "FAILED", "TIMEDOUT", "SKIPPED"}

\* the files of the problem directory as main finds them
CmdFiles ==
    [problem_yaml : FileStates,
     compiler_yaml : {"ok", "missing", "malformed"},
     recipe : {"ok", "missing", "malformed"},
     model_solution : BOOLEAN]

\* what command_gen reads from the configuration and its arguments
CmdConfigs ==
    [has_interactor : BOOLEAN, has_manager : BOOLEAN, run_checker : BOOLEAN]

\* the compile steps of command_gen, in the order of the calls
CompileSteps(cfg) ==
    <<"generator", "validator", "solution">>
    \o (IF cfg.has_interactor THEN <<"interactor">> ELSE <<>>)
    \o (IF cfg.has_manager THEN <<"manager">> ELSE <<>>)
    \o (IF cfg.run_checker THEN <<"checker">> ELSE <<>>)

CmdInit ==
    /\ cmd_pc = "main"
    /\ cmd_files \in CmdFiles
    /\ cmd_config \in CmdConfigs
    /\ cmd_compile_i = 1
    /\ cmd_spawned = <<>>
    /\ cmd_verdicts = <<>>
    /\ cmd_cleaned = FALSE
    /\ cmd_exit = "none"

\* the run ends at once: an exception leaves main, or exit(status)
CmdEnds(how) ==
    /\ cmd_pc' = "exited"
    /\ cmd_exit' = how
    /\ UNCHANGED <<cmd_files, cmd_config, cmd_compile_i, cmd_spawned, cmd_verdicts,
                   cmd_cleaned>>

CmdGoes(to) ==
    /\ cmd_pc' = to
    /\ UNCHANGED <<cmd_files, cmd_config, cmd_compile_i, cmd_spawned, cmd_verdicts,
                   cmd_cleaned, cmd_exit>>

\* main: find_problem_dir looks for problem.yaml in cwd and its parents
FindProblemDir ==
    /\ cmd_pc = "main"
    /\ IF cmd_files.problem_yaml = "missing"
       THEN CmdEnds("TMTMissingFileError")
       ELSE CmdGoes("context")
    /\ UNCHANGED other_than_cmd

\* a plausible slip: the context does not parse the recipe, command_gen
\* parses it after the compile steps
TMTContextInit_WithoutRecipe ==
    /\ cmd_pc = "context"
    /\ IF cmd_files.problem_yaml = "malformed"
       THEN CmdEnds("TMTInvalidConfigError")
       ELSE IF cmd_files.problem_yaml = "invalid_value"
       THEN CmdEnds("ValueError")
       ELSE IF cmd_files.compiler_yaml = "missing"
       THEN CmdEnds("TMTMissingFileError")
       ELSE IF cmd_files.compiler_yaml = "malformed"
       THEN CmdEnds("TMTInvalidConfigError")
       ELSE CmdGoes("gen")
    /\ UNCHANGED other_than_cmd

\* TMTContext.__init__: problem.yaml and TMTConfig, compiler.yaml, then
\* the recipe
TMTContextInit ==
    /\ cmd_pc = "context"
    /\ IF cmd_files.problem_yaml = "malformed"
       THEN CmdEnds("TMTInvalidConfigError")
       ELSE IF cmd_files.problem_yaml = "invalid_value"
       THEN CmdEnds("ValueError")
       ELSE IF cmd_files.compiler_yaml = "missing"
       THEN CmdEnds("TMTMissingFileError")
       ELSE IF cmd_files.compiler_yaml = "malformed"
       THEN CmdEnds("TMTInvalidConfigError")
       ELSE IF cmd_files.recipe = "missing"
       THEN CmdEnds("TMTMissingFileError")
       ELSE IF cmd_files.recipe = "malformed"
       THEN CmdEnds("TMTInvalidConfigError")
       ELSE CmdGoes("gen")
    /\ UNCHANGED other_than_cmd

\* command_gen up to the first compile step: the steps are made, the
\* model solution is looked up, the logs are cleaned
GenPrepare ==
    /\ cmd_pc = "gen"
    /\ IF ~cmd_files.model_solution
       THEN CmdEnds("TMTMissingFileError")
       ELSE CmdGoes("compile")
    /\ UNCHANGED other_than_cmd

\* a plausible slip: the result of a compile step is printed and ignored
CompileStep_GoesOn ==
    /\ cmd_pc = "compile"
    /\ cmd_compile_i <= Len(CompileSteps(cmd_config))
    /\ \E verdict \in CompilationOutcome :
          /\ cmd_spawned' = Append(cmd_spawned, CompileSteps(cmd_config)[cmd_compile_i])
          /\ cmd_verdicts' = Append(cmd_verdicts, verdict)
          /\ cmd_compile_i' = cmd_compile_i + 1
          /\ UNCHANGED <<cmd_pc, cmd_exit>>
    /\ UNCHANGED <<cmd_files, cmd_config, cmd_cleaned>>
    /\ UNCHANGED other_than_cmd

\* one compile step and formatter.print_compile_string_with_exit on its
\* result: exit(1) unless the verdict is SUCCESS or SKIPPED
CompileStep ==
    /\ cmd_pc = "compile"
    /\ cmd_compile_i <= Len(CompileSteps(cmd_config))
    /\ \E verdict \in CompilationOutcome :
          /\ cmd_spawned' = Append(cmd_spawned, CompileSteps(cmd_config)[cmd_compile_i])
          /\ cmd_verdicts' = Append(cmd_verdicts, verdict)
          /\ IF verdict \notin {"SUCCESS", "SKIPPED"}
             THEN /\ cmd_pc' = "exited"
                  /\ cmd_exit' = "1"
                  /\ UNCHANGED cmd_compile_i
             ELSE /\ cmd_compile_i' = cmd_compile_i + 1
                  /\ UNCHANGED <<cmd_pc, cmd_exit>>
    /\ UNCHANGED <<cmd_files, cmd_config, cmd_cleaned>>
    /\ UNCHANGED other_than_cmd

\* after the compile steps: the recipe is parsed (again), the testcases
\* directory is cleaned and made, the summary file is touched
ParseAndClean ==
    /\ cmd_pc = "compile"
    /\ cmd_compile_i > Len(CompileSteps(cmd_config))
    /\ IF cmd_files.recipe = "missing"
       THEN /\ cmd_exit' = "FileNotFoundError"
            /\ cmd_pc' = "exited"
            /\ UNCHANGED cmd_cleaned
       ELSE IF cmd_files.recipe = "malformed"
       THEN /\ cmd_exit' = "ValueError"
            /\ cmd_pc' = "exited"
            /\ UNCHANGED cmd_cleaned
       ELSE /\ cmd_cleaned' = TRUE
            /\ cmd_pc' = "tests"
            /\ UNCHANGED cmd_exit
    /\ UNCHANGED <<cmd_files, cmd_config, cmd_compile_i, cmd_spawned, cmd_verdicts>>
    /\ UNCHANGED other_than_cmd

\* the per-test loop: the generator (and then validators, solution,
\* checker) of one test is run
RunOneTest ==
    /\ cmd_pc = "tests"
    /\ Len(SelectSeq(cmd_spawned, LAMBDA c : c = "test")) < NumTests
    /\ cmd_spawned' = Append(cmd_spawned, "test")
    /\ UNCHANGED <<cmd_pc, cmd_files, cmd_config, cmd_compile_i, cmd_verdicts,
                   cmd_cleaned, cmd_exit>>
    /\ UNCHANGED other_than_cmd

\* the loop is over, the hashes are written or verified, command_gen and
\* main return
GenReturns ==
    /\ cmd_pc = "tests"
    /\ Len(SelectSeq(cmd_spawned, LAMBDA c : c = "test")) = NumTests
    /\ CmdEnds("0")
    /\ UNCHANGED other_than_cmd

(* ------------------- testcase hashes and hash.json -------------------- *)
\* Strings are sequences of code points, so that they can be compared,
\* sorted and escaped the way Python does it.
QUOTE == 34
BACKSLASH == 92

\* the names of the testcase files a run can hash: a, "a and e-acute
HashNames == {<<97>>, <<QUOTE, 97>>, <<233>>}

\* SHA-256 digests in hex, cut to one digit
HashDigests == {<<48>>, <<102>>}

\* the mappings from file names to digests
HashMaps == UNION {[S -> HashDigests] : S \in SUBSET HashNames}

\* a Python dict is a sequence of (key, value) pairs with distinct keys,
\* in the order of insertion
Keys(d) == {d[i][1] : i \in DOMAIN d}

AsMap(d) == [k \in Keys(d) |-> d[CHOOSE i \in DOMAIN d : d[i][1] = k][2]]

\* d[k] = v
DictSet(d, k, v) ==
    IF k \in Keys(d)
    THEN [i \in DOMAIN d |-> IF d[i][1] = k THEN <<k, v>> ELSE d[i]]
    ELSE Append(d, <<k, v>>)

RECURSIVE Dicts(_)
\* the dicts with keys in S, in every order of insertion
Dicts(S) ==
    {<<>>} \cup UNION {{Append(d, <<k, v>>) : d \in Dicts(S \ {k}), v \in HashDigests}
                        : k \in S}

RECURSIVE LexLess(_, _)
\* a < b for Python strings: by code point, a proper prefix comes first
LexLess(a, b) ==
    IF b = <<>> THEN FALSE
    ELSE IF a = <<>> THEN TRUE
    ELSE IF a[1] # b[1] THEN a[1] < b[1]
    ELSE LexLess(Tail(a), Tail(b))

RECURSIVE SortNames(_)
\* sorted(S) for a set of strings
SortNames(S) ==
    IF S = {} THEN <<>>
    ELSE LET m == CHOOSE x \in S : \A y \in S \ {x} : LexLess(x, y)
         IN <<m>> \o SortNames(S \ {m})

\* sorted(d.items()), the order json uses with sort_keys=True
SortItems(d) ==
    LET ks == SortNames(Keys(d))
    IN [i \in DOMAIN ks |-> <<ks[i], AsMap(d)[ks[i]]>>]

HexDigit(n) == IF n < 10 THEN 48 + n ELSE 87 + n

HexValue(c) == IF c <= 57 THEN c - 48 ELSE IF c >= 97 THEN c - 87 ELSE c - 55

\* json.encoder.py_encode_basestring_ascii on one character
EscapeChar(c) ==
    CASE c = QUOTE -> <<BACKSLASH, QUOTE>>
      [] c = BACKSLASH -> <<BACKSLASH, BACKSLASH>>
      [] c = 10 -> <<BACKSLASH, 110>>
      [] c = 13 -> <<BACKSLASH, 114>>
      [] c = 9 -> <<BACKSLASH, 116>>
      [] c = 8 -> <<BACKSLASH, 98>>
      [] c = 12 -> <<BACKSLASH, 102>>
      [] c \notin {8, 9, 10, 12, 13, QUOTE, BACKSLASH} /\ (c < 32 \/ c > 126) ->
            <<BACKSLASH, 117, HexDigit(c \div 4096), HexDigit((c \div 256) % 16),
              HexDigit((c \div 16) % 16), HexDigit(c % 16)>>
      [] OTHER -> <<c>>

RECURSIVE EscapeString(_)
EscapeString(s) ==
    IF s = <<>> THEN <<>> ELSE EscapeChar(s[1]) \o EscapeString(Tail(s))

\* a JSON string literal
JsonString(s) == <<QUOTE>> \o EscapeString(s) \o <<QUOTE>>

\* the indent passed to json.dump
JsonIndent == 4

Spaces(n) == [i \in 1..n |-> 32]

RECURSIVE JsonMembers(_)
\* the members of an object, each on a line of its own
JsonMembers(items) ==
    IF items = <<>> THEN <<>>
    ELSE <<10>> \o Spaces(JsonIndent) \o JsonString(items[1][1]) \o <<58, 32>>
              \o JsonString(items[1][2])
              \o (IF Len(items) > 1 THEN <<44>> ELSE <<>>)
              \o JsonMembers(Tail(items))

\* json.dump(obj, f, indent=4) without sort_keys
JsonDump_Unsorted(obj) ==
    IF obj = <<>> THEN <<123, 125>>
    ELSE <<123>> \o JsonMembers(obj) \o <<10, 125>>

\* json.dump(obj, f, sort_keys=True, indent=4): the text written
JsonDump(obj) ==
    IF obj = <<>> THEN <<123, 125>>
    ELSE <<123>> \o JsonMembers(SortItems(obj)) \o <<10, 125>>

RECURSIVE SkipWs(_, _)
\* json.decoder: skip whitespace from position i
SkipWs(t, i) ==
    IF i <= Len(t) /\ t[i] \in {32, 9, 10, 13} THEN SkipWs(t, i + 1) ELSE i

\* the character a backslash escape stands for
Unescaped(c) ==
    CASE c = 110 -> 10
      [] c = 114 -> 13
      [] c = 116 -> 9
      [] c = 98 -> 8
      [] c = 102 -> 12
      [] OTHER -> c

RECURSIVE ScanString(_, _, _)
\* json.decoder.py_scanstring from position i, just after the opening quote
ScanString(t, i, acc) ==
    IF t[i] = QUOTE THEN [str |-> acc, next |-> i + 1]
    ELSE IF t[i] = BACKSLASH
         THEN IF t[i + 1] = 117
              THEN ScanString(t, i + 6,
                       Append(acc, HexValue(t[i + 2]) * 4096 + HexValue(t[i + 3]) * 256
                                   + HexValue(t[i + 4]) * 16 + HexValue(t[i + 5])))
              ELSE ScanString(t, i + 2, Append(acc, Unescaped(t[i + 1])))
         ELSE ScanString(t, i + 1, Append(acc, t[i]))

RECURSIVE ScanMembers(_, _, _)
\* json.decoder.JSONObject: the members from position i, at a key's quote
ScanMembers(t, i, d) ==
    LET k == ScanString(t, i + 1, <<>>)
        colon == SkipWs(t, k.next)
        v == ScanString(t, SkipWs(t, colon + 1) + 1, <<>>)
        e == SkipWs(t, v.next)
        d2 == DictSet(d, k.str, v.str)
    IN IF t[e] = 44 THEN ScanMembers(t, SkipWs(t, e + 1), d2) ELSE d2

\* json.load on the text of an object of strings: the dict, in file order
JsonLoad(t) ==
    LET i == SkipWs(t, 2)
    IN IF t[i] = 125 THEN <<>> ELSE ScanMembers(t, i, <<>>)

NothingPrinted ==
    [headline |-> "", mismatched |-> <<>>, missing |-> <<>>, extra |-> <<>>]

\* print_hash_diff with the tables for missing and extra files swapped
print_hash_diff_swapped(official, computed) ==
    IF AsMap(computed) = official
    THEN [NothingPrinted EXCEPT !.headline = "Hash matches!"]
    ELSE [headline |-> "Hash mismatches:",
          mismatched |-> SortNames({f \in DOMAIN official \cap Keys(computed) :
                                      official[f] # AsMap(computed)[f]}),
          missing |-> SortNames(Keys(computed) \ DOMAIN official),
          extra |-> SortNames(DOMAIN official \ Keys(computed))]

\* Formatter.print_hash_diff: what is printed
print_hash_diff(official, computed) ==
    IF AsMap(computed) = official
    THEN [NothingPrinted EXCEPT !.headline = "Hash matches!"]
    ELSE [headline |-> "Hash mismatches:",
          mismatched |-> SortNames({f \in DOMAIN official \cap Keys(computed) :
                                      official[f] # AsMap(computed)[f]}),
          missing |-> SortNames(DOMAIN official \ Keys(computed)),
          extra |-> SortNames(Keys(computed) \ DOMAIN official)]

EmptyMap == [f \in {} |-> <<>>]

HashInit ==
    /\ hash_pc = "start"
    /\ verify_hash \in BOOLEAN
    /\ hash_stored \in BOOLEAN
    /\ produced \in Dicts(HashNames)
    /\ official_testcase_hashes \in
          IF verify_hash /\ hash_stored THEN HashMaps ELSE {EmptyMap}
    /\ testcase_hashes = <<>>
    /\ hash_printed = NothingPrinted
    /\ hash_file = <<>>
    /\ hash_exit = "none"

\* command_gen, --verify-hash without a hash.json: nothing to verify
NothingToVerify ==
    /\ hash_pc = "start"
    /\ verify_hash /\ ~hash_stored
    /\ hash_pc' = "done"
    /\ hash_printed' = [NothingPrinted EXCEPT !.headline =
                           "Testcase hashes does not exist. There is nothing to verify."]
    /\ hash_exit' = "0"
    /\ UNCHANGED <<verify_hash, hash_stored, produced, official_testcase_hashes,
                   testcase_hashes, hash_file>>
    /\ UNCHANGED other_than_hash

\* command_gen up to the loop over the tests
HashStart ==
    /\ hash_pc = "start"
    /\ ~(verify_hash /\ ~hash_stored)
    /\ hash_pc' = "hashing"
    /\ UNCHANGED <<verify_hash, hash_stored, produced, official_testcase_hashes,
                   testcase_hashes, hash_printed, hash_file, hash_exit>>
    /\ UNCHANGED other_than_hash

\* the loop hashes the next file of a successful test
HashTestcase ==
    /\ hash_pc = "hashing"
    /\ Len(testcase_hashes) < Len(produced)
    /\ LET item == produced[Len(testcase_hashes) + 1]
       IN testcase_hashes' = DictSet(testcase_hashes, item[1], item[2])
    /\ UNCHANGED <<hash_pc, verify_hash, hash_stored, produced,
                   official_testcase_hashes, hash_printed, hash_file, hash_exit>>
    /\ UNCHANGED other_than_hash

\* after the loop with --verify-hash: print the difference, return to main
VerifyHash ==
    /\ hash_pc = "hashing"
    /\ Len(testcase_hashes) = Len(produced)
    /\ verify_hash
    /\ hash_printed' = print_hash_diff(official_testcase_hashes, testcase_hashes)
    /\ hash_pc' = "verified"
    /\ hash_exit' = "0"
    /\ UNCHANGED <<verify_hash, hash_stored, produced, official_testcase_hashes,
                   testcase_hashes, hash_file>>
    /\ UNCHANGED other_than_hash

\* after the loop without --verify-hash: write hash.json, return to main
WriteHash ==
    /\ hash_pc = "hashing"
    /\ Len(testcase_hashes) = Len(produced)
    /\ ~verify_hash
    /\ hash_file' = JsonDump(testcase_hashes)
    /\ hash_pc' = "written"
    /\ hash_exit' = "0"
    /\ UNCHANGED <<verify_hash, hash_stored, produced, official_testcase_hashes,
                   testcase_hashes, hash_printed>>
    /\ UNCHANGED other_than_hash

(* ----------------------- canonical test names ------------------------- *)
\* A recipe is written, parsed, edited and parsed again.  Of a recipe the
\* model keeps what the names depend on: its testsets in file order, each
\* with its name and the number of its test lines.
UNDERSCORE == 95

\* the numbers of test lines a testset of the model has
CaseCounts == {1, 10}

RECURSIVE Str(_)
\* str(n) for a natural number
Str(n) == IF n < 10 THEN <<48 + n>> ELSE Append(Str(n \div 10), 48 + (n % 10))

\* s.zfill(width) that pads nothing
zfill_unpadded(s, width) == s

\* s.zfill(width)
zfill(s, width) ==
    IF Len(s) >= width THEN s ELSE [i \in 1..(width - Len(s)) |-> 48] \o s

\* the name the recipe gives to its i-th testset: t<i>, <i>, <i>_1 in turn,
\* so that names made of digits and names holding underscores both occur
NameOf(i) ==
    CASE i % 3 = 1 -> <<116>> \o Str(i)
      [] i % 3 = 2 -> Str(i)
      [] OTHER -> Str(i) \o <<UNDERSCORE, 49>>

\* TestsetHandler.handle on each "@testset NAME" line and add_test on the
\* test lines after it: the parser context after the lines of the recipe
RECURSIVE ParseLines(_, _)
ParseLines(recipe, ctx) ==
    IF recipe = <<>> \/ ctx.error # "none" THEN ctx
    ELSE LET line == Head(recipe)
         IN IF line.name \in ctx.used_names
            THEN [ctx EXCEPT !.error = "Name already used"]
            ELSE ParseLines(Tail(recipe),
                     [ctx EXCEPT
                         !.used_names = @ \cup {line.name},
                         !.testsets = Append(@, [testset_name |-> line.name,
                                                 testset_index |-> ctx.testset_counter,
                                                 ntests |-> line.ntests]),
                         !.testset_counter = @ + 1])

\* ParserContext.__init__
NewParserContext ==
    [testsets |-> <<>>, testset_counter |-> 1, used_names |-> {}, error |-> "none"]

\* Testset.generate_test_names with the number of tests in place of the
\* index of the case
generate_test_names_count(testset, testset_index_width) ==
    LET testcase_index_width == Len(Str(testset.ntests))
        testset_index_padded == zfill(Str(testset.testset_index), testset_index_width)
    IN [i \in 1..testset.ntests |->
           testset_index_padded \o <<UNDERSCORE>> \o testset.testset_name
               \o <<UNDERSCORE>> \o zfill(Str(testset.ntests), testcase_index_width)]

\* Testset.generate_test_names: the names of the tests of one testset
generate_test_names(testset, testset_index_width) ==
    LET testcase_index_width == Len(Str(testset.ntests))
        testset_index_padded == zfill(Str(testset.testset_index), testset_index_width)
    IN [i \in 1..testset.ntests |->
           testset_index_padded \o <<UNDERSCORE>> \o testset.testset_name
               \o <<UNDERSCORE>> \o zfill(Str(i), testcase_index_width)]

\* max(testset.testset_index for testset in testsets)
MaxTestsetIndex(testsets) ==
    CHOOSE m \in {testsets[i].testset_index : i \in DOMAIN testsets} :
        \A i \in DOMAIN testsets : testsets[i].testset_index <= m

RECURSIVE TotalTests(_)
TotalTests(testsets) ==
    IF testsets = <<>> THEN 0 ELSE Head(testsets).ntests + TotalTests(Tail(testsets))

\* RecipeData.generate_all_test_names with the width of the testset index
\* taken from the number of tests of the whole recipe
generate_all_test_names_total(testsets) ==
    IF testsets = <<>> THEN <<>>
    ELSE LET testset_index_width == Len(Str(TotalTests(testsets)))
         IN [i \in DOMAIN testsets |->
                generate_test_names(testsets[i], testset_index_width)]

\* RecipeData.generate_all_test_names: the names of every testset
generate_all_test_names(testsets) ==
    IF testsets = <<>> THEN <<>>
    ELSE LET testset_index_width == Len(Str(MaxTestsetIndex(testsets)))
         IN [i \in DOMAIN testsets |->
                generate_test_names(testsets[i], testset_index_width)]

\* parse_recipe_data: the testsets with the names of their tests, or the error
parse_recipe_data(recipe) ==
    LET ctx == ParseLines(recipe, NewParserContext)
    IN IF ctx.error # "none"
       THEN [error |-> ctx.error, testsets |-> <<>>, names |-> <<>>]
       ELSE [error |-> "none", testsets |-> ctx.testsets,
             names |-> generate_all_test_names(ctx.testsets)]

RECURSIVE SortedByIndex(_, _)
\* sorted(..., key=lambda ts: ts.testset_index): the positions in S of the
\* testsets, by ascending testset index
SortedByIndex(testsets, S) ==
    IF S = {} THEN <<>>
    ELSE LET m == CHOOSE i \in S : \A j \in S :
                      testsets[i].testset_index <= testsets[j].testset_index
         IN <<m>> \o SortedByIndex(testsets, S \ {m})

RECURSIVE Flatten(_)
Flatten(seqs) == IF seqs = <<>> THEN <<>> ELSE Head(seqs) \o Flatten(Tail(seqs))

\* RecipeData.get_all_test_names: the testsets sorted by index, their names
\* in the order of the tests
get_all_test_names(parsed) ==
    LET order == SortedByIndex(parsed.testsets, DOMAIN parsed.testsets)
    IN Flatten([i \in DOMAIN order |-> parsed.names[order[i]]])

NamesInit ==
    /\ rcp_recipe = <<>>
    /\ rcp_other = 0
    /\ rcp_parsed = parse_recipe_data(<<>>)

\* the recipe is written again with the given testsets and parsed
Reparse(recipe) ==
    /\ rcp_recipe' = recipe
    /\ rcp_parsed' = parse_recipe_data(recipe)

\* a testset is appended to the recipe, under a new name or under the name
\* of the first testset
AppendTestset ==
    /\ rcp_parsed.error = "none"
    /\ Len(rcp_recipe) < MaxTestsets
    /\ \E n \in CaseCounts, name \in {NameOf(Len(rcp_recipe) + 1), NameOf(1)} :
          Reparse(Append(rcp_recipe, [name |-> name, ntests |-> n]))
    /\ UNCHANGED rcp_other
    /\ UNCHANGED other_than_names

\* the last testset is removed from the recipe
RemoveLastTestset ==
    /\ rcp_recipe # <<>>
    /\ Reparse(SubSeq(rcp_recipe, 1, Len(rcp_recipe) - 1))
    /\ UNCHANGED rcp_other
    /\ UNCHANGED other_than_names

\* test lines are added to or removed from one testset
EditCases ==
    /\ rcp_parsed.error = "none"
    /\ \E k \in DOMAIN rcp_recipe :
          \E n \in CaseCounts \ {rcp_recipe[k].ntests} :
              Reparse([rcp_recipe EXCEPT ![k].ntests = n])
    /\ UNCHANGED rcp_other
    /\ UNCHANGED other_than_names

\* a constant or a validator is added to or removed from the recipe
EditOther ==
    /\ rcp_parsed.error = "none"
    /\ rcp_other' = 1 - rcp_other
    /\ Reparse(rcp_recipe)
    /\ UNCHANGED other_than_names

(* --------------------- constants of the recipe ------------------------ *)
\* The parser handles the lines of a recipe one by one.  Of a line the
\* model keeps its kind, the constant it defines and the constants it
\* refers to with ${NAME}.  A string is the sequence of its parts, so that
\* the value an @extra_file line defines is a concatenation.
ConstNames == {"A", "NOTE"}

InternalName == <<"_tmt_internal_testcase_name">>

\* the extensions of @extra_file lines; the last one lacks the dot
Extensions == {<<".note">>, <<".aux">>, <<"note">>}

\* the values of @constant lines
ConstValues == {<<"1">>, <<"2">>, InternalName \o <<".note">>}

\* the lines of a recipe
RecipeLines ==
    [kind : {"testset", "subtask"}]
    \cup [kind : {"constant"}, name : ConstNames, value : ConstValues]
    \cup [kind : {"extra_file"}, name : ConstNames, ext : Extensions]
    \cup [kind : {"test", "validation", "global_validation"}, refs : SUBSET ConstNames]

\* the line before the first
NoLine == [kind |-> "none"]

\* ParserContext.has_constant
has_constant(constants, name) == name \in DOMAIN constants

\* ParserContext.set_constant without the test for a redefinition
set_constant_overwrite(constants, name, value) ==
    [error |-> "none", constants |-> (name :> value) @@ constants]

\* ParserContext.set_constant: the error raised and the table afterwards
set_constant(constants, name, value) ==
    IF has_constant(constants, name) /\ constants[name] # value
    THEN [error |-> "Redefinition on constant", constants |-> constants]
    ELSE [error |-> "none", constants |-> (name :> value) @@ constants]

\* ParserContext.expand_constants on a text with the given references
expand_constants(constants, refs) ==
    IF \E r \in refs : ~has_constant(constants, r)
    THEN "Undefined constant"
    ELSE "none"

\* extension[0] == "."
StartsWithDot(ext) == ext \in {<<".note">>, <<".aux">>}

ConstInit ==
    /\ cst_constants = EmptyMap
    /\ cst_before = EmptyMap
    /\ cst_context = "none"
    /\ cst_independent = FALSE
    /\ cst_extra = {}
    /\ cst_line = NoLine
    /\ cst_error = "none"

\* one more line is read and handed to its handler
Handles(line) ==
    /\ cst_error = "none"
    /\ cst_line' = line
    /\ cst_before' = cst_constants

\* TestsetHandler.handle
HandleTestset ==
    /\ Handles([kind |-> "testset"])
    /\ cst_context' = "testset"
    /\ cst_independent' = FALSE
    /\ cst_extra' = {}
    /\ UNCHANGED <<cst_constants, cst_error>>
    /\ UNCHANGED other_than_const

\* SubtaskHandler.handle
HandleSubtask ==
    /\ Handles([kind |-> "subtask"])
    /\ cst_context' = "subtask"
    /\ cst_independent' = FALSE
    /\ cst_extra' = {}
    /\ UNCHANGED <<cst_constants, cst_error>>
    /\ UNCHANGED other_than_const

\* ConstantHandler.handle
HandleConstant ==
    \E name \in ConstNames, value \in ConstValues :
        LET set == set_constant(cst_constants, name, value)
        IN /\ Handles([kind |-> "constant", name |-> name, value |-> value])
           /\ cst_constants' = set.constants
           /\ cst_error' = set.error
           /\ UNCHANGED <<cst_context, cst_independent, cst_extra>>
           /\ UNCHANGED other_than_const

\* ExtrafileHandler.handle
HandleExtrafile ==
    \E name \in ConstNames, ext \in Extensions :
        LET set == set_constant(cst_constants, name, InternalName \o ext)
        IN /\ Handles([kind |-> "extra_file", name |-> name, ext |-> ext])
           /\ IF cst_context \notin {"testset", "subtask"}
              THEN /\ cst_error' = "@extra_file can only be used within testset or subtask context"
                   /\ UNCHANGED <<cst_constants, cst_independent, cst_extra>>
              ELSE /\ cst_independent' = (cst_context = "subtask")
                   /\ IF cst_context = "testset" /\ ~StartsWithDot(ext)
                      THEN /\ cst_error' = "Extra file should start with a dot"
                           /\ UNCHANGED <<cst_constants, cst_extra>>
                      ELSE IF cst_context = "testset" /\ ext \in cst_extra
                      THEN /\ cst_error' = "Extra file already added"
                           /\ UNCHANGED <<cst_constants, cst_extra>>
                      ELSE /\ cst_extra' = cst_extra \cup {ext}
                           /\ cst_constants' = set.constants
                           /\ cst_error' = set.error
           /\ UNCHANGED cst_context
           /\ UNCHANGED other_than_const

\* parse_recipe_data on a line that does not start with @
HandleTest ==
    \E refs \in SUBSET ConstNames :
        /\ Handles([kind |-> "test", refs |-> refs])
        /\ cst_independent' = (cst_context = "subtask")
        /\ cst_error' =
              IF expand_constants(cst_constants, refs) # "none"
              THEN expand_constants(cst_constants, refs)
              ELSE IF cst_context = "none" THEN "AttributeError" ELSE "none"
        /\ UNCHANGED <<cst_constants, cst_context, cst_extra>>
        /\ UNCHANGED other_than_const

\* ValidationHandler.handle
HandleValidation ==
    \E refs \in SUBSET ConstNames :
        /\ Handles([kind |-> "validation", refs |-> refs])
        /\ cst_error' =
              IF cst_context \notin {"testset", "subtask"}
              THEN "@validation can only be used within testset or subtask context"
              ELSE expand_constants(cst_constants, refs)
        /\ UNCHANGED <<cst_constants, cst_context, cst_independent, cst_extra>>
        /\ UNCHANGED other_than_const

\* GlobalValidationHandler.handle
HandleGlobalValidation ==
    \E refs \in SUBSET ConstNames :
        LET error == expand_constants(cst_constants, refs)
        IN /\ Handles([kind |-> "global_validation", refs |-> refs])
           /\ cst_error' = error
           /\ IF error = "none"
              THEN /\ cst_context' = "none"
                   /\ cst_independent' = FALSE
                   /\ cst_extra' = {}
              ELSE UNCHANGED <<cst_context, cst_independent, cst_extra>>
           /\ UNCHANGED cst_constants
           /\ UNCHANGED other_than_const

(* ------------------- the files of one test, by stage ------------------- *)
\* the directories the stages of "tmt gen" work in
SandboxOf ==
    [generation |-> "sandbox_generation", validation |-> "sandbox_validation",
     solution |-> "sandbox_solution", checker |-> "sandbox_checker"]

Stages == DOMAIN SandboxOf

Sandboxes == {SandboxOf[s] : s \in Stages}

\* construct_input_filename, construct_output_filename, construct_test_filename
InputName == "t.in"
OutputName == "t.out"
ExtraName == "t.x"

\* len(commands) after "manual INPUT OUTPUT" became "cp" and "cat"
GenLen(t) == IF t.forced THEN t.ncmds + 1 ELSE t.ncmds

\* "{code_name}.gen.{i}.err" if len(commands) > 1 else "{code_name}.gen.err"
GenErrNames == <<"t.gen.1.err", "t.gen.2.err", "t.gen.3.err", "t.gen.4.err">>

GenErrName(i, n) == IF n > 1 THEN GenErrNames[i] ELSE "t.gen.err"

\* the files named name in directory dir
File(dir, name) == <<dir, name>>

InDir(files, dir) == {f \in files : f[1] = dir}

\* shutil.move(src, dst) on a set of files
Move(files, src, dst, names) ==
    (files \ {File(src, n) : n \in names}) \cup {File(dst, n) : n \in names}

\* the directories a stage touched, noted with the stage
Touch(stage, dirs) == {<<stage, d>> : d \in dirs}

\* run_generator, the files: what the children create in the sandbox (each
\* child opens its redirect files before it executes the command), then the
\* moves to testcases and logs, which a FileNotFoundError cuts short
run_generator_files(t, files, fail_at, cp_done, extra_made) ==
    LET n == GenLen(t)
        sg == "sandbox_generation"
        spawned == IF fail_at = 0 THEN n ELSE fail_at
        errs == {GenErrName(i, n) : i \in 1..spawned}
        made == {File(sg, e) : e \in errs}
                \cup (IF spawned = n THEN {File(sg, InputName)} ELSE {})
                \cup (IF t.forced /\ (fail_at = 0 \/ (fail_at > 1 /\ cp_done))
                      THEN {File(sg, OutputName)} ELSE {})
                \cup (IF t.extra /\ extra_made /\ fail_at = 0
                      THEN {File(sg, ExtraName)} ELSE {})
        f0 == files \cup made
        f1 == Move(f0, sg, "testcases", {InputName})
        has_out == File(sg, OutputName) \in f1
        f2 == IF has_out THEN Move(f1, sg, "testcases", {OutputName}) ELSE f1
        f3 == IF t.extra THEN Move(f2, sg, "testcases", {ExtraName}) ELSE f2
        f4 == Move(f3, sg, "logs_generation", errs)
    IN IF fail_at # 0
       THEN [files |-> f0, raised |-> TRUE, generates_output |-> FALSE]
       ELSE IF t.extra /\ ~extra_made
       THEN [files |-> f2, raised |-> TRUE, generates_output |-> has_out]
       ELSE [files |-> f4, raised |-> FALSE, generates_output |-> has_out]

\* the verdict of the generator processes: the status loop of run_generator
GenStatusVerdict(o) ==
    IF is_timedout(o) THEN "TIMEDOUT"
    ELSE IF status_nonzero(o) THEN "CRASHED"
    ELSE "SUCCESS"

FilesInit ==
    /\ fs_pc = "gen"
    /\ fs_test \in [ncmds : 1..MaxCommands, forced : BOOLEAN, extra : BOOLEAN,
                    run_checker : BOOLEAN, check_output : BOOLEAN]
    /\ fs_files = {}
    /\ fs_access = {}
    /\ fs_result = GenerationResult
    /\ fs_summary = FALSE
    /\ fs_hashes = {}
    /\ fs_exc = "none"

\* command_gen, "gen": generation_step.run_generator(...)
FsRunGenerator ==
    /\ fs_pc = "gen"
    /\ \E fail_at \in 0..GenLen(fs_test), cp_done \in BOOLEAN, extra_made \in BOOLEAN,
          o \in ProcOutcome :
          LET r == run_generator_files(fs_test, fs_files, fail_at, cp_done, extra_made)
          IN /\ fs_files' = r.files
             /\ fs_result' =
                   [fs_result EXCEPT
                       !.is_output_forced = fs_test.forced,
                       !.input_generation =
                           IF r.raised THEN "FAILED" ELSE GenStatusVerdict(o),
                       !.output_generation =
                           IF r.generates_output THEN "SKIPPED_SUCCESS" ELSE @]
    /\ fs_access' = fs_access \cup
                       Touch("generation", {"sandbox_generation", "testcases",
                                            "logs_generation"})
    /\ fs_pc' = "val"
    /\ UNCHANGED <<fs_test, fs_summary, fs_hashes, fs_exc>>
    /\ UNCHANGED other_than_files

\* command_gen, "val": skipped unless the input was generated; run_validator
\* empties its sandbox, copies the input and the extra files into it, and
\* moves the validator's stdout and stderr to the logs
FsRunValidator ==
    /\ fs_pc = "val"
    /\ IF fs_result.input_generation # "SUCCESS"
       THEN /\ fs_result' = [fs_result EXCEPT !.input_validation = "SKIPPED"]
            /\ UNCHANGED <<fs_files, fs_access>>
       ELSE \E v \in {"SUCCESS", "FAILED", "CRASHED", "TIMEDOUT"} :
               /\ fs_result' = [fs_result EXCEPT !.input_validation = v]
               /\ fs_files' = (fs_files \ InDir(fs_files, "sandbox_validation"))
                              \cup {File("logs_generation", "t.val.out"),
                                    File("logs_generation", "t.val.err")}
               /\ fs_access' = fs_access \cup
                                 Touch("validation", {"sandbox_validation", "testcases",
                                                      "logs_generation"})
    /\ fs_pc' = "sol"
    /\ UNCHANGED <<fs_test, fs_summary, fs_hashes, fs_exc>>
    /\ UNCHANGED other_than_files

\* command_gen, "ans": run_solution copies the input into its sandbox, runs
\* the solution there, removes the copy, moves the stderr to the logs and
\* the output, if the solution left one, to testcases
FsRunSolution ==
    /\ fs_pc = "sol"
    /\ IF fs_result.input_validation # "SUCCESS"
       THEN /\ fs_result' = [fs_result EXCEPT !.output_generation = "SKIPPED"]
            /\ fs_pc' = "chk"
            /\ UNCHANGED <<fs_files, fs_access, fs_exc>>
       ELSE IF fs_result.output_generation = "SKIPPED_SUCCESS"
       THEN /\ fs_pc' = "chk"
            /\ UNCHANGED <<fs_result, fs_files, fs_access, fs_exc>>
       ELSE \E output_left \in BOOLEAN :
            \E v \in IF output_left THEN SolutionVerdicts("BATCH") \ {"NO_FILE"}
                                    ELSE {"NO_FILE"} :
               /\ fs_files' = fs_files
                              \cup {File("logs_generation", "t.sol.err")}
                              \cup (IF output_left THEN {File("testcases", OutputName)}
                                                   ELSE {})
               /\ fs_access' = fs_access \cup
                                 Touch("solution", {"sandbox_solution", "testcases",
                                                    "logs_generation"})
               /\ IF eval_outcome_to_run_outcome(v) = "RAISE"
                  THEN /\ fs_exc' = "ValueError"
                       /\ fs_pc' = "raised"
                       /\ UNCHANGED fs_result
                  ELSE /\ fs_result' = [fs_result EXCEPT !.output_generation =
                                            eval_outcome_to_run_outcome(v)]
                       /\ fs_pc' = "chk"
                       /\ UNCHANGED fs_exc
    /\ UNCHANGED <<fs_test, fs_summary, fs_hashes>>
    /\ UNCHANGED other_than_files

\* run_checker: os.path.join(sandbox_solution, "feedback_dir")
feedback_dir == File("sandbox_solution", "feedback_dir")

\* command_gen, the checker: skipped after a failure or by configuration;
\* else the answer is copied into the checker's sandbox and run_checker
\* makes the feedback directory and runs the checker on the copy
FsRunChecker ==
    /\ fs_pc = "chk"
    /\ IF ~fs_test.run_checker
       THEN /\ fs_result' = [fs_result EXCEPT !.output_validation = "SKIPPED_SUCCESS"]
            /\ fs_pc' = "sum"
            /\ UNCHANGED <<fs_files, fs_access, fs_exc>>
       ELSE IF \/ fs_result.output_generation \notin {"SUCCESS", "SKIPPED_SUCCESS"}
               \/ fs_result.input_validation \notin {"SUCCESS", "SKIPPED_SUCCESS"}
       THEN /\ fs_result' = [fs_result EXCEPT !.output_validation = "SKIPPED"]
            /\ fs_pc' = "sum"
            /\ UNCHANGED <<fs_files, fs_access, fs_exc>>
       ELSE IF ~fs_test.check_output
       THEN /\ fs_result' = [fs_result EXCEPT !.output_validation = "SKIPPED_SUCCESS"]
            /\ fs_pc' = "sum"
            /\ UNCHANGED <<fs_files, fs_access, fs_exc>>
       ELSE IF File("testcases", OutputName) \notin fs_files
       THEN /\ fs_exc' = "FileNotFoundError"
            /\ fs_pc' = "raised"
            /\ fs_access' = fs_access \cup Touch("checker", {"testcases"})
            /\ UNCHANGED <<fs_files, fs_result>>
       ELSE \E v \in CheckerVerdicts :
               /\ fs_files' = fs_files \cup {File("sandbox_checker", OutputName),
                                             feedback_dir}
               /\ fs_access' = fs_access \cup
                                 Touch("checker", {"testcases", "sandbox_checker",
                                                   feedback_dir[1]})
               /\ fs_result' = [fs_result EXCEPT !.output_validation =
                                    eval_outcome_to_grade_outcome(v)]
               /\ fs_pc' = "sum"
               /\ UNCHANGED fs_exc
    /\ UNCHANGED <<fs_test, fs_summary, fs_hashes>>
    /\ UNCHANGED other_than_files

\* the files command_gen hashes for a test: input, answer, extra files
HashedNames(t) == {InputName, OutputName} \cup (IF t.extra THEN {ExtraName} ELSE {})

\* command_gen, "if result:": the codename goes to the summary, then each
\* file of the test is opened and hashed; a missing file ends the run
FsSummary ==
    /\ fs_pc = "sum"
    /\ fs_files' = fs_files \cup {File("logs_generation", "t.gen.log")}
    /\ IF GenerationResultBool(fs_result)
       THEN /\ fs_summary' = TRUE
            /\ LET there == {n \in HashedNames(fs_test) : File("testcases", n) \in fs_files}
               IN IF there = HashedNames(fs_test)
                  THEN /\ fs_hashes' = there
                       /\ fs_pc' = "done"
                       /\ UNCHANGED fs_exc
                  ELSE /\ fs_hashes' = IF InputName \in there THEN {InputName} ELSE {}
                       /\ fs_exc' = "FileNotFoundError"
                       /\ fs_pc' = "raised"
       ELSE /\ fs_pc' = "done"
            /\ UNCHANGED <<fs_summary, fs_hashes, fs_exc>>
    /\ UNCHANGED <<fs_test, fs_access, fs_result>>
    /\ UNCHANGED other_than_files

FilesIdle ==
    /\ fs_pc = "idle"
    /\ fs_test = [ncmds |-> 1, forced |-> FALSE, extra |-> FALSE,
                  run_checker |-> FALSE, check_output |-> FALSE]
    /\ fs_files = {}
    /\ fs_access = {}
    /\ fs_result = GenerationResult
    /\ fs_summary = FALSE
    /\ fs_hashes = {}
    /\ fs_exc = "none"

(* ------------------ compile_single: the compile commands --------------- *)
\* "languages", and "none" for sources that no language recognizes
SingleLanguages == {"cpp", "python3", "none"}

\* len(lang.get_compile_single_commands(...)): one compiler call for C++;
\* cp, compileall, mv and zip for Python
CompileSingleCommands == [cpp |-> 1, python3 |-> 4, none |-> 0]

\* compile_process: the Process the name is bound to, 0 for None
compile_process == Len(cs_procs)

SingleInit ==
    /\ cs_pc = "for"
    /\ cs_lang \in SingleLanguages
    /\ cs_procs = <<>>
    /\ cs_exc = "none"
    /\ cs_verdict = "none"

SingleIdle ==
    /\ cs_pc = "idle"
    /\ cs_lang = "none"
    /\ cs_procs = <<>>
    /\ cs_exc = "none"
    /\ cs_verdict = "none"

\* no language takes the sources: compile_process is None, FAILED
CsNoLanguage ==
    /\ cs_pc = "for"
    /\ cs_lang = "none"
    /\ cs_verdict' = "FAILED"
    /\ cs_pc' = "returned"
    /\ UNCHANGED <<cs_lang, cs_procs, cs_exc>>
    /\ UNCHANGED other_than_single

\* "for command in compilation_commands: compile_process = Process(...)":
\* one turn of the loop, whose body is the spawn alone
CsSpawn ==
    /\ cs_pc = "for"
    /\ cs_lang # "none"
    /\ compile_process < CompileSingleCommands[cs_lang]
    /\ cs_procs' = Append(cs_procs, NewProcess)
    /\ cs_pc' = IF Len(cs_procs') = CompileSingleCommands[cs_lang] THEN "wait" ELSE "for"
    /\ UNCHANGED <<cs_lang, cs_exc, cs_verdict>>
    /\ UNCHANGED other_than_single

\* Process(...) raises (the command is not installed): the finally clause
\* calls safe_kill on the last Process made, if any, and the error goes on
CsSpawnFails ==
    /\ cs_pc = "for"
    /\ cs_lang # "none"
    /\ compile_process < CompileSingleCommands[cs_lang]
    /\ \E died \in BOOLEAN :
          cs_procs' = [i \in 1..Len(cs_procs) |->
                          IF i = compile_process THEN safe_kill(cs_procs[i], died)
                          ELSE cs_procs[i]]
    /\ cs_exc' = "FileNotFoundError"
    /\ cs_pc' = "raised"
    /\ UNCHANGED <<cs_lang, cs_verdict>>
    /\ UNCHANGED other_than_single

\* wait_for_outputs(compile_process), after the loop: one turn of
\* "while proc.wait4() is None" on the last Process
CsPoll ==
    /\ cs_pc = "wait"
    /\ cs_procs' = [cs_procs EXCEPT ![compile_process] = wait4(@)]
    /\ cs_pc' = IF wait4(cs_procs[compile_process]).returncode = "None"
                THEN "wait" ELSE "finally"
    /\ UNCHANGED <<cs_lang, cs_exc, cs_verdict>>
    /\ UNCHANGED other_than_single

\* KeyboardInterrupt inside wait_for_outputs: proc.safe_kill(), raise; the
\* finally clause calls safe_kill on the same Process once more
CsInterrupt ==
    /\ cs_pc = "wait"
    /\ \E died1, died2 \in BOOLEAN :
          cs_procs' = [cs_procs EXCEPT ![compile_process] =
                          safe_kill(safe_kill(@, died1), died2)]
    /\ cs_exc' = "KeyboardInterrupt"
    /\ cs_pc' = "raised"
    /\ UNCHANGED <<cs_lang, cs_verdict>>
    /\ UNCHANGED other_than_single

\* "finally: compile_process.safe_kill()", then the verdict from the last
\* Process: TIMEDOUT, FAILED on a non-zero status, else SUCCESS
CsFinally ==
    /\ cs_pc = "finally"
    /\ \E died \in BOOLEAN :
          cs_procs' = [cs_procs EXCEPT ![compile_process] = safe_kill(@, died)]
    /\ cs_verdict' \in {"TIMEDOUT", "FAILED", "SUCCESS"}
    /\ cs_pc' = "returned"
    /\ UNCHANGED <<cs_lang, cs_exc>>
    /\ UNCHANGED other_than_single

\* a running compile command terminates
CsChildExit ==
    /\ cs_pc \notin {"idle"}
    /\ \E i \in 1..Len(cs_procs) :
          /\ cs_procs[i].os = "running"
          /\ cs_procs' = [cs_procs EXCEPT ![i].os = "zombie"]
    /\ UNCHANGED <<cs_pc, cs_lang, cs_exc, cs_verdict>>
    /\ UNCHANGED other_than_single

(* ------------- a compile step: Process and wait_for_outputs ------------ *)
\* what a pipe holds before a write to it blocks, in blocks of 8 KiB
PipeCapacity == 1

\* the most a build tool writes to one of its streams, in blocks of 8 KiB
MaxOutput == 2

\* how a build tool behaves: what it writes to stdout and to stderr before
\* it is done, and whether it then exits or hangs
BuildTools == [todo_out : 0..MaxOutput, todo_err : 0..MaxOutput, hangs : BOOLEAN]

NoBlocks == [out |-> 0, err |-> 0]

CaptureInit ==
    /\ wo_pc = "spawn"
    /\ wo_tool \in BuildTools
    /\ wo_os = "unborn"
    /\ wo_pipe = NoBlocks
    /\ wo_got = NoBlocks
    /\ wo_elapsed = 0
    /\ wo_timer = "none"
    /\ wo_verdict = "none"

CaptureIdle ==
    /\ wo_pc = "idle"
    /\ wo_tool = [todo_out |-> 0, todo_err |-> 0, hangs |-> FALSE]
    /\ wo_os = "unborn"
    /\ wo_pipe = NoBlocks
    /\ wo_got = NoBlocks
    /\ wo_elapsed = 0
    /\ wo_timer = "none"
    /\ wo_verdict = "none"

\* make_compile_wildcard: compile_process = Process([MAKE, ...], stdout=PIPE,
\* stderr=PIPE, ...); Process.__init__ makes the Timer and does not start it
WoSpawn ==
    /\ wo_pc = "spawn"
    /\ wo_os' = "running"
    /\ wo_timer' = "created"
    /\ wo_pc' = "loop"
    /\ UNCHANGED <<wo_tool, wo_pipe, wo_got, wo_elapsed, wo_verdict>>
    /\ UNCHANGED other_than_capture

\* the streams select is asked about: "[proc.stdout] if proc.stdout is not
\* None and not proc.stdout.closed else [] + [proc.stderr] if ... else []";
\* nothing closes proc.stdout, so the list is [proc.stdout]
to_read == {"out"}

\* wait_for_outputs, one turn of "while proc.wait4() is None": the child is
\* reaped if it has exited; else select waits up to one second on to_read
\* and one block is read from each stream that has data
WoTurn ==
    /\ wo_pc = "loop"
    /\ IF wo_os = "zombie"
       THEN /\ wo_os' = "reaped"
            /\ wo_timer' = "cancelled"
            /\ wo_pc' = "drain"
            /\ UNCHANGED <<wo_pipe, wo_got, wo_elapsed>>
       ELSE LET available_read == {s \in to_read : wo_pipe[s] > 0}
            IN /\ wo_pipe' = [s \in {"out", "err"} |->
                                 IF s \in available_read THEN wo_pipe[s] - 1
                                 ELSE wo_pipe[s]]
               /\ wo_got' = [s \in {"out", "err"} |->
                                IF s \in available_read THEN wo_got[s] + 1
                                ELSE wo_got[s]]
               /\ wo_elapsed' = IF available_read = {} /\ wo_elapsed < MaxElapsed
                                THEN wo_elapsed + 1 ELSE wo_elapsed
               /\ UNCHANGED <<wo_os, wo_timer, wo_pc>>
    /\ UNCHANGED <<wo_tool, wo_verdict>>
    /\ UNCHANGED other_than_capture

\* the rest of wait_for_outputs reads both streams to their end; then the
\* verdict of make_compile_wildcard: TIMEDOUT, FAILED on a non-zero status,
\* else SUCCESS
WoDrain ==
    /\ wo_pc = "drain"
    /\ wo_got' = [s \in {"out", "err"} |-> wo_got[s] + wo_pipe[s]]
    /\ wo_pipe' = NoBlocks
    /\ \E is_cpu_timedout, status_is_zero \in BOOLEAN :
          wo_verdict' = IF is_cpu_timedout \/ wo_elapsed > TimeLimit THEN "TIMEDOUT"
                        ELSE IF ~status_is_zero THEN "FAILED"
                        ELSE "SUCCESS"
    /\ wo_pc' = "returned"
    /\ UNCHANGED <<wo_tool, wo_os, wo_elapsed, wo_timer>>
    /\ UNCHANGED other_than_capture

\* "except KeyboardInterrupt: proc.safe_kill(); raise"
WoInterrupt ==
    /\ wo_pc = "loop"
    /\ wo_os' \in IF wo_os = "zombie" THEN {"reaped"}
                  ELSE IF wo_os = "running" THEN {"running", "reaped"}
                  ELSE {wo_os}
    /\ wo_timer' = "cancelled"
    /\ wo_pc' = "raised"
    /\ UNCHANGED <<wo_tool, wo_pipe, wo_got, wo_elapsed, wo_verdict>>
    /\ UNCHANGED other_than_capture

\* the build tool writes a block to its stdout; the write blocks while the
\* pipe is full
ToolWritesStdout ==
    /\ wo_os = "running"
    /\ wo_tool.todo_out > 0
    /\ wo_pipe.out < PipeCapacity
    /\ wo_tool' = [wo_tool EXCEPT !.todo_out = @ - 1]
    /\ wo_pipe' = [wo_pipe EXCEPT !.out = @ + 1]
    /\ UNCHANGED <<wo_pc, wo_os, wo_got, wo_elapsed, wo_timer, wo_verdict>>
    /\ UNCHANGED other_than_capture

\* the build tool writes a block to its stderr
ToolWritesStderr ==
    /\ wo_os = "running"
    /\ wo_tool.todo_err > 0
    /\ wo_pipe.err < PipeCapacity
    /\ wo_tool' = [wo_tool EXCEPT !.todo_err = @ - 1]
    /\ wo_pipe' = [wo_pipe EXCEPT !.err = @ + 1]
    /\ UNCHANGED <<wo_pc, wo_os, wo_got, wo_elapsed, wo_timer, wo_verdict>>
    /\ UNCHANGED other_than_capture

\* the build tool has written everything and exits, unless it hangs
ToolExits ==
    /\ wo_os = "running"
    /\ wo_tool.todo_out = 0 /\ wo_tool.todo_err = 0
    /\ ~wo_tool.hangs
    /\ wo_os' = "zombie"
    /\ UNCHANGED <<wo_pc, wo_tool, wo_pipe, wo_got, wo_elapsed, wo_timer, wo_verdict>>
    /\ UNCHANGED other_than_capture

(* ------------------ Formatter: the verdict groups ---------------------- *)
\* the class attributes group_accepted ... group_judge_error of Formatter
Formatter ==
    [group_accepted |-> {"ACCEPTED"},
     group_partial |-> {"PARTIAL"},
     group_wrong_answer |-> {"WRONG", "NO_FILE", "NO_OUTPUT"},
     group_timeout |-> {"TIMEOUT", "TIMEOUT_WALL"},
     group_runtime_error |-> {"RUNERROR_OUTPUT", "RUNERROR_SIGNAL", "RUNERROR_EXITCODE",
                              "RUNERROR_MEMORY"},
     group_judge_error |-> {"MANAGER_CRASHED", "MANAGER_TIMEOUT", "CHECKER_CRASHED",
                            "CHECKER_FAILED", "CHECKER_TIMEDOUT", "INTERNAL_ERROR"}]

\* Formatter.print_checker_verdict: the colour the verdict is printed in;
\* "RAISE" stands for the ValueError of the final else
print_checker_verdict(v) ==
    IF v \in Formatter.group_accepted THEN "ANSI_GREEN"
    ELSE IF v \in Formatter.group_partial THEN "ANSI_YELLOW"
    ELSE IF v \in Formatter.group_wrong_answer THEN "ANSI_RED"
    ELSE IF v \in Formatter.group_timeout THEN "ANSI_BLUE"
    ELSE IF v \in Formatter.group_runtime_error THEN "ANSI_PURPLE"
    ELSE IF v \in Formatter.group_judge_error THEN "ANSI_RED"
    ELSE "RAISE"

(* --------------- parse_recipe_data: the errors of a parse -------------- *)
\* the most lines a recipe has
MaxLines == 3

\* the names a recipe gives to its testsets and subtasks
RecipeNames == {"a", "b"}

\* what a parse has come to: still reading, a RecipeData returned, or an
\* exception; line is the number the message of the exception names, 0 if
\* it names none
Parsing == [kind |-> "parsing", line |-> 0, message |-> ""]

\* "except ValueError as e: raise ValueError(f'Error on line {line_num}: {e}')"
ErrorOnLine(exception, message, line_num) ==
    IF exception = "ValueError"
    THEN [kind |-> "ValueError", line |-> line_num, message |-> message]
    ELSE [kind |-> exception, line |-> 0, message |-> message]

ParseInit ==
    /\ ps_line_num = 0
    /\ ps_context = "none"
    /\ ps_object = "None"
    /\ ps_testsets = {}
    /\ ps_subtasks = {}
    /\ ps_outcome = Parsing

ParseIdle ==
    /\ ps_line_num = 0
    /\ ps_context = "none"
    /\ ps_object = "None"
    /\ ps_testsets = {}
    /\ ps_subtasks = {}
    /\ ps_outcome = [kind |-> "idle", line |-> 0, message |-> ""]

\* "for line_num, line in enumerate(recipe_lines, 1)": there is a next line
NextLine ==
    /\ ps_outcome = Parsing
    /\ ps_line_num < MaxLines
    /\ ps_line_num' = ps_line_num + 1

\* the line is handled and the parse goes on, or the handler raised
Handled(exception, message) ==
    ps_outcome' = IF exception = "none" THEN Parsing
                  ELSE ErrorOnLine(exception, message, ps_line_num')

\* an empty line or a comment: "continue"
ParseSkip ==
    /\ NextLine
    /\ UNCHANGED <<ps_context, ps_object, ps_testsets, ps_subtasks, ps_outcome>>
    /\ UNCHANGED other_than_parse

\* "@testset NAME": TestsetHandler.handle
ParseTestset ==
    /\ NextLine
    /\ \E name \in RecipeNames :
          IF name \in ps_testsets \cup ps_subtasks
          THEN /\ Handled("ValueError", "Name already used")
               /\ UNCHANGED <<ps_context, ps_object, ps_testsets, ps_subtasks>>
          ELSE /\ Handled("none", "")
               /\ ps_testsets' = ps_testsets \cup {name}
               /\ ps_context' = "testset"
               /\ ps_object' = name
               /\ UNCHANGED ps_subtasks
    /\ UNCHANGED other_than_parse

\* "@subtask NAME SCORE": SubtaskHandler.handle
ParseSubtask ==
    /\ NextLine
    /\ \E name \in RecipeNames, score_is_int \in BOOLEAN :
          IF name \in ps_testsets \cup ps_subtasks \/ ~score_is_int
          THEN /\ Handled("ValueError",
                          IF name \in ps_testsets \cup ps_subtasks
                          THEN "Name already used" ELSE "Invalid score for subtask")
               /\ UNCHANGED <<ps_context, ps_object, ps_testsets, ps_subtasks>>
          ELSE /\ Handled("none", "")
               /\ ps_subtasks' = ps_subtasks \cup {name}
               /\ ps_context' = "subtask"
               /\ ps_object' = name
               /\ UNCHANGED ps_testsets
    /\ UNCHANGED other_than_parse

\* "@global_validation COMMAND": GlobalValidationHandler.handle; the
\* command may name a constant that is not defined
ParseGlobalValidation ==
    /\ NextLine
    /\ \E undefined_constant \in BOOLEAN :
          IF undefined_constant
          THEN /\ Handled("ValueError", "Undefined constant")
               /\ UNCHANGED <<ps_context, ps_object>>
          ELSE /\ Handled("none", "")
               /\ ps_context' = "none"
               /\ ps_object' = "None"
    /\ UNCHANGED <<ps_testsets, ps_subtasks>>
    /\ UNCHANGED other_than_parse

\* "@include NAME": IncludeHandler.handle
ParseInclude ==
    /\ NextLine
    /\ \E name \in RecipeNames :
          IF ps_context # "subtask"
          THEN Handled("ValueError", "@include can only be used within subtask context")
          ELSE IF name \in ps_testsets \/ name \in ps_subtasks THEN Handled("none", "")
          ELSE Handled("ValueError", "Unknown testset or subtask name")
    /\ UNCHANGED <<ps_context, ps_object, ps_testsets, ps_subtasks>>
    /\ UNCHANGED other_than_parse

\* "@word" for a word that is no command: CommandRegistry.get_handler
ParseUnknownCommand ==
    /\ NextLine
    /\ Handled("ValueError", "Unknown command")
    /\ UNCHANGED <<ps_context, ps_object, ps_testsets, ps_subtasks>>
    /\ UNCHANGED other_than_parse

\* "parser_context.current_object.add_test(expanded_line)": None has no
\* attribute add_test
add_test(object) == IF object = "None" THEN "AttributeError" ELSE "none"

\* a line that does not start with @, a test: the independent testset of a
\* subtask is made if need be, the constants are expanded, the test is added
ParseTestLine ==
    /\ NextLine
    /\ \E undefined_constant \in BOOLEAN :
          /\ ps_testsets' = IF ps_context = "subtask"
                            THEN ps_testsets \cup {ps_object} ELSE ps_testsets
          /\ IF undefined_constant THEN Handled("ValueError", "Undefined constant")
             ELSE Handled(add_test(ps_object),
                          "'NoneType' object has no attribute 'add_test'")
    /\ UNCHANGED <<ps_context, ps_object, ps_subtasks>>
    /\ UNCHANGED other_than_parse

\* the lines are over: the names are generated, the RecipeData is returned
ParseReturn ==
    /\ ps_outcome = Parsing
    /\ ps_outcome' = [kind |-> "RecipeData", line |-> 0, message |-> ""]
    /\ UNCHANGED <<ps_line_num, ps_context, ps_object, ps_testsets, ps_subtasks>>
    /\ UNCHANGED other_than_parse

(* ------------- command_gen: what a run does to hash.json --------------- *)
\* One run of "tmt gen" over a testcases directory that may hold a hash.json
\* and files of earlier runs.  hash.json is absent or holds the set of
\* tests whose files it lists; the other files of the directory are names.
StoreTests == 2
\* the generator, the validator and the solution are compiled
StoreCompiles ==
    Len(CompileSteps([has_interactor |-> FALSE, has_manager |-> FALSE,
                      run_checker |-> FALSE]))
Absent == [exists |-> FALSE, map |-> {}]
Stored(map) == [exists |-> TRUE, map |-> map]
StoredMaps == SUBSET (1..StoreTests)
TestFile(i) == IF i = 1 THEN "1.in" ELSE IF i = 2 THEN "2.in" ELSE "3.in"

\* clean_testcases without its keep_hash: hash.json is removed as well
clean_testcases_all(dir, hash_json) == [dir |-> {}, hash_json |-> Absent]

\* ProblemDirectoryHelper.clean_testcases(keep_hash=True): every entry of
\* the directory is removed but the one that is hash.json
clean_testcases(dir, hash_json) == [dir |-> {}, hash_json |-> hash_json]

StoreInit ==
    /\ st_pc = "start"
    /\ st_verify_hash \in BOOLEAN
    /\ st_hash_json \in {Absent} \cup {Stored(map) : map \in StoredMaps}
    /\ st_before = st_hash_json
    /\ st_dir \in SUBSET {"summary", TestFile(1)}
    /\ st_compiled = 0
    /\ st_cleaned = FALSE
    /\ st_i = 0
    /\ st_testcase_hashes = {}
    /\ st_exit = "none"

StoreIdle ==
    /\ st_pc = "idle"
    /\ st_verify_hash = FALSE
    /\ st_hash_json = Absent
    /\ st_before = Absent
    /\ st_dir = {}
    /\ st_compiled = 0
    /\ st_cleaned = FALSE
    /\ st_i = 0
    /\ st_testcase_hashes = {}
    /\ st_exit = "none"

\* "if verify_hash and not (exists and isfile): ... return"
StNothingToVerify ==
    /\ st_pc = "start"
    /\ st_verify_hash /\ st_hash_json = Absent
    /\ st_pc' = "returned"
    /\ st_exit' = "0"
    /\ UNCHANGED <<st_verify_hash, st_hash_json, st_before, st_dir, st_compiled,
                   st_cleaned, st_i, st_testcase_hashes>>
    /\ UNCHANGED other_than_store

\* one "print_compile_string_with_exit(step.compile())": exit(1) unless the
\* compilation succeeded or was skipped
StCompile ==
    /\ st_pc = "start"
    /\ ~(st_verify_hash /\ st_hash_json = Absent)
    /\ st_compiled < StoreCompiles
    /\ \E compiled \in BOOLEAN :
          IF compiled
          THEN /\ st_compiled' = st_compiled + 1
               /\ UNCHANGED <<st_pc, st_exit>>
          ELSE /\ st_pc' = "exited"
               /\ st_exit' = "1"
               /\ UNCHANGED st_compiled
    /\ UNCHANGED <<st_verify_hash, st_hash_json, st_before, st_dir, st_cleaned,
                   st_i, st_testcase_hashes>>
    /\ UNCHANGED other_than_store

\* the recipe is parsed (ValueError for a recipe in error), the testcases
\* directory is cleaned and the summary is touched
StParseAndClean ==
    /\ st_pc = "start"
    /\ st_compiled = StoreCompiles
    /\ \E recipe_parses \in BOOLEAN :
          IF recipe_parses
          THEN LET cleaned == clean_testcases(st_dir, st_hash_json)
               IN /\ st_dir' = cleaned.dir \cup {"summary"}
                  /\ st_hash_json' = cleaned.hash_json
                  /\ st_cleaned' = TRUE
                  /\ st_pc' = "loop"
                  /\ UNCHANGED st_exit
          ELSE /\ st_pc' = "raised"
               /\ st_exit' = "ValueError"
               /\ UNCHANGED <<st_dir, st_hash_json, st_cleaned>>
    /\ UNCHANGED <<st_verify_hash, st_before, st_compiled, st_i, st_testcase_hashes>>
    /\ UNCHANGED other_than_store

\* one test of the loop.  "listed": the result is true and its files are
\* hashed; "failed": the result is false; "no_file": the result is true
\* but a file to hash is not there (open raises FileNotFoundError);
\* "output_limit": eval_outcome_to_run_outcome raises ValueError
StTest ==
    /\ st_pc = "loop"
    /\ st_i < StoreTests
    /\ \E outcome \in {"listed", "failed", "no_file", "output_limit"} :
          CASE outcome = "listed" ->
                  /\ st_i' = st_i + 1
                  /\ st_dir' = st_dir \cup {TestFile(st_i + 1)}
                  /\ st_testcase_hashes' = st_testcase_hashes \cup {st_i + 1}
                  /\ UNCHANGED <<st_pc, st_exit>>
            [] outcome = "failed" ->
                  /\ st_i' = st_i + 1
                  /\ UNCHANGED <<st_pc, st_exit, st_dir, st_testcase_hashes>>
            [] outcome = "no_file" ->
                  /\ st_pc' = "raised"
                  /\ st_exit' = "FileNotFoundError"
                  /\ UNCHANGED <<st_i, st_dir, st_testcase_hashes>>
            [] outcome = "output_limit" ->
                  /\ st_pc' = "raised"
                  /\ st_exit' = "ValueError"
                  /\ UNCHANGED <<st_i, st_dir, st_testcase_hashes>>
    /\ UNCHANGED <<st_verify_hash, st_hash_json, st_before, st_compiled, st_cleaned>>
    /\ UNCHANGED other_than_store

\* "if verify_hash": hash.json is opened for reading and the difference is
\* printed
StVerify ==
    /\ st_pc = "loop"
    /\ st_i = StoreTests
    /\ st_verify_hash
    /\ st_pc' = "returned"
    /\ st_exit' = "0"
    /\ UNCHANGED <<st_verify_hash, st_hash_json, st_before, st_dir, st_compiled,
                   st_cleaned, st_i, st_testcase_hashes>>
    /\ UNCHANGED other_than_store

\* "else: with open(testcases_hashes, 'w') as f: json.dump(testcase_hashes...)"
StWrite ==
    /\ st_pc = "loop"
    /\ st_i = StoreTests
    /\ ~st_verify_hash
    /\ st_hash_json' = Stored(st_testcase_hashes)
    /\ st_pc' = "returned"
    /\ st_exit' = "0"
    /\ UNCHANGED <<st_verify_hash, st_before, st_dir, st_compiled, st_cleaned,
                   st_i, st_testcase_hashes>>
    /\ UNCHANGED other_than_store

(* ------------------------- specifications ----------------------------- *)
ValIdle ==
    /\ val_pc = "idle"
    /\ val_judge = "ICPC"
    /\ val_cmds = <<>>
    /\ val_fnf = "none"
    /\ val_i = 0
    /\ val_started = <<>>
    /\ val_alive = {}
    /\ val_logs = {}
    /\ val_result = [input_validation |-> "UNKNOWN", reason |-> ""]

SolIdle ==
    /\ sol_pc = "idle"
    /\ sol_variant = "BATCH"
    /\ sol_proc = [cpu_time |-> 0, wall_clock_time |-> 0, max_rss |-> 0,
                   exit_signal |-> 0, exit_code |-> 0]
    /\ sol_output = "missing"
    /\ sol_checker = [is_timedout |-> FALSE, is_signaled_exit |-> FALSE, exit_code |-> 0]
    /\ sol_feedback = [is_file |-> FALSE, lines |-> <<>>]
    /\ sol_record = NewRecord

CmdIdle ==
    /\ cmd_pc = "idle"
    /\ cmd_files = [problem_yaml |-> "ok", compiler_yaml |-> "ok", recipe |-> "ok",
                    model_solution |-> TRUE]
    /\ cmd_config = [has_interactor |-> FALSE, has_manager |-> FALSE,
                     run_checker |-> FALSE]
    /\ cmd_compile_i = 1
    /\ cmd_spawned = <<>>
    /\ cmd_verdicts = <<>>
    /\ cmd_cleaned = FALSE
    /\ cmd_exit = "none"

HashIdle ==
    /\ hash_pc = "idle"
    /\ verify_hash = FALSE
    /\ hash_stored = FALSE
    /\ produced = <<>>
    /\ official_testcase_hashes = EmptyMap
    /\ testcase_hashes = <<>>
    /\ hash_printed = NothingPrinted
    /\ hash_file = <<>>
    /\ hash_exit = "none"

NamesIdle == NamesInit

ConstIdle == ConstInit

TopIdle == CmdIdle /\ HashIdle /\ NamesIdle /\ ConstIdle /\ FilesIdle /\ SingleIdle /\ CaptureIdle /\ ParseIdle /\ StoreIdle

StepIdle == ValIdle /\ SolIdle /\ TopIdle

GenIdle ==
    /\ config = [problem_type |-> "BATCH", checker_type |-> "DEFAULT",
                 check_forced_output |-> FALSE, check_generated_output |-> FALSE]
    /\ pc = "idle"
    /\ test = 1
    /\ result = GenerationResult
    /\ gen_procs = <<>>
    /\ gen_i = 0
    /\ generates_output = FALSE
    /\ manual_output = FALSE
    /\ writes = NoWrites
    /\ clobbered = {}
    /\ solution_runs = 0
    /\ checker_runs = 0
    /\ summary = <<>>

\* the per-test pipeline of command_gen
Init == GenInit /\ RunIdle /\ StepIdle

Next ==
    \/ RunGenerator
    \/ CheckGeneratorStatus
    \/ FinishGenerator
    \/ RunValidation
    \/ RunAnswer
    \/ RunCheckerStage
    \/ WriteSummary
    \/ NextTest
    \/ EndOfTests

Spec == Init /\ [][Next]_vars

\* the children of one run: compile step, then the pipelines
InitRun == GenIdle /\ RunInit /\ StepIdle

NextRun ==
    \/ SpawnCompile
    \/ PollCompile
    \/ FinishCompile
    \/ InterruptCompile
    \/ SpawnOk
    \/ SpawnFileNotFound
    \/ SpawnOSError
    \/ InterruptSpawn
    \/ StartWait
    \/ Wait3
    \/ DispatchPid
    \/ WaitReturn
    \/ InterruptWait
    \/ NextBatch
    \/ FinishRun
    \/ ChildExit
    \/ Tick

SpecRun == InitRun /\ [][NextRun]_vars

\* run_validator on one test
InitVal == GenIdle /\ RunIdle /\ ValInit /\ SolIdle /\ TopIdle

NextVal ==
    \/ ValPreprocess
    \/ ValSpawn
    \/ ValWait
    \/ ValJudge
    \/ ValSuccess

SpecVal == InitVal /\ [][NextVal]_vars

\* run_solution, then run_checker, on one test
InitSol == GenIdle /\ RunIdle /\ ValIdle /\ SolInit /\ TopIdle

NextSol ==
    \/ BatchRunSolution
    \/ InteractiveRunSolution
    \/ RunChecker

SpecSol == InitSol /\ [][NextSol]_vars

\* one run of "tmt gen" from main to its end
InitCmd ==
    GenIdle /\ RunIdle /\ ValIdle /\ SolIdle /\ CmdInit /\ HashIdle /\ NamesIdle /\ ConstIdle /\ FilesIdle /\ SingleIdle /\ CaptureIdle /\ ParseIdle /\ StoreIdle

NextCmd ==
    \/ FindProblemDir
    \/ TMTContextInit
    \/ GenPrepare
    \/ CompileStep
    \/ ParseAndClean
    \/ RunOneTest
    \/ GenReturns

SpecCmd == InitCmd /\ [][NextCmd]_vars

\* the hashes of one run of "tmt gen": built by the loop, then verified
\* against hash.json or written to it
InitHash ==
    GenIdle /\ RunIdle /\ ValIdle /\ SolIdle /\ CmdIdle /\ HashInit /\ NamesIdle /\ ConstIdle /\ FilesIdle /\ SingleIdle /\ CaptureIdle /\ ParseIdle /\ StoreIdle

NextHash ==
    \/ NothingToVerify
    \/ HashStart
    \/ HashTestcase
    \/ VerifyHash
    \/ WriteHash

SpecHash == InitHash /\ [][NextHash]_vars

\* a recipe that is edited and parsed again after each edit
InitNames ==
    GenIdle /\ RunIdle /\ ValIdle /\ SolIdle /\ CmdIdle /\ HashIdle /\ NamesInit /\ ConstIdle /\ FilesIdle /\ SingleIdle /\ CaptureIdle /\ ParseIdle /\ StoreIdle

NextNames ==
    \/ AppendTestset
    \/ RemoveLastTestset
    \/ EditCases
    \/ EditOther

SpecNames == InitNames /\ [][NextNames]_vars

\* the parser on the lines of a recipe, as far as the constants go
InitConst ==
    GenIdle /\ RunIdle /\ ValIdle /\ SolIdle /\ CmdIdle /\ HashIdle /\ NamesIdle /\ ConstInit /\ FilesIdle /\ SingleIdle /\ CaptureIdle /\ ParseIdle /\ StoreIdle

NextConst ==
    \/ HandleTestset
    \/ HandleSubtask
    \/ HandleConstant
    \/ HandleExtrafile
    \/ HandleTest
    \/ HandleValidation
    \/ HandleGlobalValidation

SpecConst == InitConst /\ [][NextConst]_vars

\* the files one test leaves in the sandboxes, testcases and logs
InitFiles ==
    GenIdle /\ RunIdle /\ ValIdle /\ SolIdle /\ CmdIdle /\ HashIdle /\ NamesIdle /\ ConstIdle /\ FilesInit /\ SingleIdle /\ CaptureIdle /\ ParseIdle /\ StoreIdle

NextFiles ==
    \/ FsRunGenerator
    \/ FsRunValidator
    \/ FsRunSolution
    \/ FsRunChecker
    \/ FsSummary

SpecFiles == InitFiles /\ [][NextFiles]_vars

\* compile_single on the sources of one program
InitSingle ==
    GenIdle /\ RunIdle /\ ValIdle /\ SolIdle /\ CmdIdle /\ HashIdle /\ NamesIdle /\ ConstIdle /\ FilesIdle /\ SingleInit /\ CaptureIdle /\ ParseIdle /\ StoreIdle

NextSingle ==
    \/ CsNoLanguage
    \/ CsSpawn
    \/ CsSpawnFails
    \/ CsPoll
    \/ CsInterrupt
    \/ CsFinally
    \/ CsChildExit

SpecSingle == InitSingle /\ [][NextSingle]_vars

\* one compile step on a build tool that writes to both of its streams
InitCapture ==
    GenIdle /\ RunIdle /\ ValIdle /\ SolIdle /\ CmdIdle /\ HashIdle /\ NamesIdle /\ ConstIdle /\ FilesIdle /\ SingleIdle /\ ParseIdle /\ CaptureInit /\ StoreIdle

NextCapture ==
    \/ WoSpawn
    \/ WoTurn
    \/ WoDrain
    \/ WoInterrupt
    \/ ToolWritesStdout
    \/ ToolWritesStderr
    \/ ToolExits

SpecCapture == InitCapture /\ [][NextCapture]_vars

\* the same with the scheduling of the code: tmt keeps running its loop,
\* and the build tool, unless it hangs, goes on whenever a write can proceed
SpecCaptureLive ==
    /\ SpecCapture
    /\ WF_vars(WoSpawn) /\ WF_vars(WoTurn) /\ WF_vars(WoDrain)
    /\ WF_vars(ToolWritesStdout) /\ WF_vars(ToolWritesStderr) /\ WF_vars(ToolExits)

\* parse_recipe_data on the lines of a recipe, one after the other
InitParse ==
    GenIdle /\ RunIdle /\ ValIdle /\ SolIdle /\ CmdIdle /\ HashIdle /\ NamesIdle /\ ConstIdle /\ FilesIdle /\ SingleIdle /\ CaptureIdle /\ ParseInit /\ StoreIdle

NextParse ==
    \/ ParseSkip
    \/ ParseTestset
    \/ ParseSubtask
    \/ ParseGlobalValidation
    \/ ParseInclude
    \/ ParseUnknownCommand
    \/ ParseTestLine
    \/ ParseReturn

SpecParse == InitParse /\ [][NextParse]_vars

\* one run of "tmt gen" seen from hash.json
InitStore ==
    GenIdle /\ RunIdle /\ ValIdle /\ SolIdle /\ CmdIdle /\ HashIdle /\ NamesIdle /\ ConstIdle /\ FilesIdle /\ SingleIdle /\ CaptureIdle /\ ParseIdle /\ StoreInit

NextStore ==
    \/ StNothingToVerify
    \/ StCompile
    \/ StParseAndClean
    \/ StTest
    \/ StVerify
    \/ StWrite

SpecStore == InitStore /\ [][NextStore]_vars

(* ============================ properties ============================== *)
Successful == {"SUCCESS", "SKIPPED_SUCCESS"}
Interrupts == {"KeyboardInterrupt", "InterruptedError"}

\* C1: once the pipeline is through with a test whose input_generation is
\* not SUCCESS, input_validation, output_generation and output_validation
\* are all SKIPPED, whatever the problem and checker configuration.
C1_FailedGenerationSkipsAll ==
    (TestDone /\ result.input_generation # "SUCCESS")
        => /\ result.input_validation = "SKIPPED"
           /\ result.output_generation = "SKIPPED"
           /\ result.output_validation = "SKIPPED"

\* C2: once the pipeline is through with a test, an output_generation or an
\* input_validation outside {SUCCESS, SKIPPED_SUCCESS} means
\* output_validation = SKIPPED, whatever the configuration.
C2_NoAnswerSkipsCheck ==
    (TestDone /\ (\/ result.output_generation \notin Successful
                  \/ result.input_validation \notin Successful))
        => result.output_validation = "SKIPPED"

\* C3: once the pipeline is through with a test whose input_validation is
\* not SUCCESS, output_generation is SKIPPED and the model solution was not
\* run, also when run_generator had set SKIPPED_SUCCESS for a forced output.
C3_InvalidInputSkipsAnswer ==
    (TestDone /\ result.input_validation # "SUCCESS")
        => /\ result.output_generation = "SKIPPED"
           /\ solution_runs = 0

\* C3 witness: a forced output, marked SKIPPED_SUCCESS by run_generator,
\* whose input failed validation and whose answer slot ended SKIPPED
C3_Witness ==
    /\ TestDone
    /\ result.is_output_forced
    /\ generates_output
    /\ result.input_validation = "FAILED"
    /\ result.output_generation = "SKIPPED"
    /\ "output_generation" \in clobbered

\* C4: while a test is processed every verdict slot is assigned at most
\* once; no slot that holds a verdict is assigned again.
C4_SlotsAssignedOnce ==
    /\ \A s \in Slots : writes[s] <= 1
    /\ clobbered = {}

\* C5: the codename of a test is in testcases/summary iff every stage of
\* the test ended with a successful verdict (so never after a CRASHED,
\* TIMEDOUT, FAILED or SKIPPED stage), never before the test is through,
\* and no codename is listed twice.
C5_SummaryIffAllSucceeded ==
    /\ pc \in {"next", "finished"}
          => ((\E k \in 1..Len(summary) : summary[k] = test)
                 <=> (\A s \in Slots : result[s] \in Successful))
    /\ pc \notin {"next", "finished"}
          => \A k \in 1..Len(summary) : summary[k] < test
    /\ \A j, k \in 1..Len(summary) : summary[j] = summary[k] => j = k

\* C5 witness: a later test with a failed input validation is left out
\* while an earlier, successful test is listed
C5_Witness ==
    /\ pc = "next"
    /\ test = 2
    /\ summary = <<1>>
    /\ result.input_validation = "FAILED"

\* C6: an interrupt (KeyboardInterrupt, InterruptedError) that arrives
\* while wait_procs waits leaves wait_procs as that exception, and by then
\* every process of the batch is reaped or has been sent SIGKILL by
\* safe_kill.
C6_InterruptedWaitKillsBatch ==
    [][(run_pc \in {"wait", "got_pid"} /\ exc' \in Interrupts)
          => /\ run_pc' = "exited"
             /\ \A p \in Range(batch_procs) :
                   \/ procs'[p].os = "reaped"
                   \/ "safe_kill" \in procs'[p].signalled]_vars

\* C6 witness: wait_procs was interrupted with one child already reaped
\* and the other still running; the running one got SIGKILL
C6_Witness ==
    /\ run_pc = "exited"
    /\ exc \in Interrupts
    /\ Len(batch_procs) = 2
    /\ remaining_pids = {batch_procs[2]}
    /\ procs[batch_procs[1]].recorded = 1
    /\ procs[batch_procs[2]].signalled = {"safe_kill"}

\* C7: whenever the run exits (normally, on a compile failure, on a stage
\* error or on an interrupt) none of its children is alive or unreaped.
C7_NoChildLeftAtExit ==
    run_pc = "exited"
        => \A p \in Procs : procs[p].os \in {"unborn", "reaped"}

\* C8: a child still running time_limit + 1.0 s after its spawn has been
\* sent SIGKILL by its watchdog timer.
C8_WatchdogKillsOverdueChild ==
    \A p \in Procs :
        (procs[p].os = "running" /\ procs[p].elapsed >= TimeLimit + WatchdogGrace)
            => "timer" \in procs[p].signalled

\* C9: when the spawn of a pipeline command fails with an OS-level error,
\* every command spawned before it has been killed (or is reaped) by the
\* time the failure is reported.
C9_SpawnFailureKillsSiblings ==
    spawn_failure # "none"
        => \A p \in Range(batch_procs) :
              \/ procs[p].os = "reaped"
              \/ procs[p].signalled # {}

\* a step in which safe_kill is called on process p
SafeKillStep(p) ==
    \/ p = 1 /\ run_pc \in {"compile_wait", "compile_read"}
             /\ exc' = "KeyboardInterrupt"
    \/ p \in remaining_pids /\ run_pc \in {"wait", "got_pid"} /\ exc' \in Interrupts
    \/ p \in Range(batch_procs) /\ run_pc = "spawn"
             /\ spawn_failure' = "FileNotFoundError"

\* C10: safe_kill on an already reaped process sends no signal and leaves
\* status, rusage and returncode as they are; on a child that exited before
\* the kill it raises nothing and the child ends reaped; and after safe_kill
\* on a live child the child's exit status has been recorded exactly once.
C10_SafeKillIdempotentAndRecords ==
    [][\A p \in Procs :
          SafeKillStep(p) =>
             /\ procs[p].returncode = "set"
                   => procs'[p] = [procs[p] EXCEPT !.timer = "cancelled"]
             /\ (procs[p].returncode = "None" /\ procs[p].os = "zombie")
                   => (procs'[p].os = "reaped" /\ procs'[p].signalled = procs[p].signalled)
             /\ (procs[p].returncode = "None" /\ procs[p].os = "running")
                   => procs'[p].recorded = 1]_vars

\* run_generator has gone through its status loop for a pipeline that ran
GeneratorJudged == pc \notin {"gen", "gen_status", "idle"} /\ gen_procs # <<>>

\* C11: input_generation is SUCCESS iff every command of the pipeline exited
\* 0 without timing out; TIMEDOUT if any command timed out, wherever it
\* sits in the pipeline; CRASHED if some command exited non-zero or was
\* signalled and none timed out.
C11_GeneratorVerdict ==
    GeneratorJudged =>
        LET anyTimedout == \E k \in 1..Len(gen_procs) : is_timedout(gen_procs[k])
            anyNonzero == \E k \in 1..Len(gen_procs) : status_nonzero(gen_procs[k])
        IN /\ (result.input_generation = "SUCCESS") <=> (~anyTimedout /\ ~anyNonzero)
           /\ anyTimedout => result.input_generation = "TIMEDOUT"
           /\ (anyNonzero /\ ~anyTimedout) => result.input_generation = "CRASHED"

\* the exit code a passing validator has: 42 under the ICPC convention
ExpectedByConvention == IF val_judge = "ICPC" THEN 42 ELSE 0

\* a validator run that does not pass
ValidatorFails(v) ==
    v.is_timedout \/ v.is_signaled_exit \/ v.exit_code # ExpectedByConvention

FailingValidators == {j \in 1..Len(val_cmds) : ValidatorFails(val_cmds[j])}

FirstFailing == CHOOSE i \in FailingValidators : \A j \in FailingValidators : i <= j

\* the verdict that stands for the failure of one validator run
FailureOf(v) ==
    IF v.is_timedout THEN "TIMEDOUT"
    ELSE IF v.is_signaled_exit THEN "CRASHED"
    ELSE "FAILED"

\* C12: validators run one at a time and in order; when validator i is the
\* first to fail, exactly validators 1..i were started, exactly i stderr
\* logs exist, and the stage result is the failure of validator i.
C12_ValidatorsStopAtFirstFailure ==
    /\ Cardinality(val_alive) <= 1
    /\ \A j \in 1..Len(val_started) : val_started[j] = j
    /\ (val_pc = "done" /\ val_fnf = "none" /\ FailingValidators # {})
          => /\ Len(val_started) = FirstFailing
             /\ val_logs = 1..FirstFailing
             /\ val_result.input_validation = FailureOf(val_cmds[FirstFailing])

\* C12 witness: two validators, the first fails, the second never started
C12_Witness ==
    /\ val_pc = "done"
    /\ val_fnf = "none"
    /\ Len(val_cmds) = 2
    /\ FailingValidators = {1, 2}
    /\ val_started = <<1>>
    /\ val_logs = {1}

\* how the stage reads the run of the validator that decided it
ValidatorRunInterpreted ==
    FailingValidators # {} =>
        LET v == val_cmds[FirstFailing]
        IN /\ v.is_timedout => val_result.input_validation = "TIMEDOUT"
           /\ (~v.is_timedout /\ v.is_signaled_exit)
                 => val_result.input_validation = "CRASHED"
           /\ (~v.is_timedout /\ ~v.is_signaled_exit)
                 => /\ val_result.input_validation = "FAILED"
                    /\ v.stderr # <<>> => val_result.reason = v.stderr[Len(v.stderr)]

\* C13 as stated: timed out gives TIMEDOUT, else signalled gives CRASHED,
\* else an exit code other than the expected one (42 for ICPC, 0 otherwise)
\* gives FAILED with the last stderr line as reason; and input_validation is
\* SUCCESS iff every validator exits with the expected code.
C13_ValidatorVerdictAsStated ==
    (val_pc = "done" /\ val_fnf = "none")
        => /\ ValidatorRunInterpreted
           /\ (val_result.input_validation = "SUCCESS")
                 <=> \A j \in 1..Len(val_cmds) :
                        /\ ~val_cmds[j].is_signaled_exit
                        /\ val_cmds[j].exit_code = ExpectedByConvention

\* C13 amended: the same interpretation of a run; input_validation is
\* SUCCESS iff every validator exits with the expected code without having
\* timed out and without a signal.
C13_ValidatorVerdict ==
    (val_pc = "done" /\ val_fnf = "none")
        => /\ ValidatorRunInterpreted
           /\ (val_result.input_validation = "SUCCESS")
                 <=> FailingValidators = {}

\* C13 witness: under the ICPC convention a validator that exits 0 fails the
\* input, and the reason is the last line it wrote to stderr
C13_Witness ==
    /\ val_pc = "done"
    /\ val_fnf = "none"
    /\ val_judge = "ICPC"
    /\ Len(val_cmds) = 1
    /\ ~val_cmds[1].is_timedout
    /\ ~val_cmds[1].is_signaled_exit
    /\ val_cmds[1].exit_code = 0
    /\ val_result = [input_validation |-> "FAILED",
                     reason |-> "line 3: value out of range"]

\* the solution verdict table speaks: run_solution has returned, the batch
\* solution left its output file, the interactor neither timed out nor was
\* signalled
SolutionTableApplies ==
    /\ sol_pc = "ran"
    /\ sol_variant = "BATCH" => sol_output # "missing"
    /\ sol_variant = "INTERACTIVE" =>
          ~sol_checker.is_timedout /\ ~sol_checker.is_signaled_exit

\* C14: a solution whose peak resident set size exceeds its memory limit
\* gets the verdict RUNERROR_MEMORY, whatever its CPU time, wall-clock
\* time, signal and exit code are.
C14_MemoryFirst ==
    (SolutionTableApplies /\ sol_proc.max_rss > MemoryLimit)
        => sol_record.verdict = "RUNERROR_MEMORY"

\* the order of rules written down on its own: the first rule that matches
FirstMatchingRule(s) ==
    CASE s.cpu_time > TimeLimit -> "TIMEOUT"
      [] s.cpu_time <= TimeLimit /\ s.wall_clock_time > TimeLimit -> "TIMEOUT_WALL"
      [] OTHER ->
           CASE s.exit_signal = SIGXFSZ -> "OUTPUT_LIMIT"
             [] s.exit_signal = SIGXCPU -> "TIMEOUT"
             [] s.exit_signal \notin {0, SIGXFSZ, SIGXCPU} -> "RUNERROR_SIGNAL"
             [] OTHER -> IF s.exit_code # 0 THEN "RUNERROR_EXITCODE"
                                           ELSE "RUN_SUCCESS"

\* the interactor neither timed out nor was signalled
InteractorClean == ~sol_checker.is_timedout /\ ~sol_checker.is_signaled_exit

\* the verdict of run_solution follows the order of rules; the interactive
\* variant puts the interactor's judgement where the batch variant has
\* RUN_SUCCESS
FollowsRuleOrder ==
    /\ sol_variant = "BATCH" =>
          sol_record.verdict = FirstMatchingRule(sol_proc)
    /\ (sol_variant = "INTERACTIVE" /\ InteractorClean) =>
          IF FirstMatchingRule(sol_proc) = "RUN_SUCCESS"
          THEN sol_record.verdict \in {"ACCEPTED", "WRONG"}
          ELSE sol_record.verdict = FirstMatchingRule(sol_proc)

\* C15 as stated: with the memory within its limit the solution verdict is
\* the first matching rule of cpu, wall, SIGXFSZ, SIGXCPU, other signal,
\* exit code, else RUN_SUCCESS, in the batch and the interactive variant.
C15_RuleOrderAsStated ==
    (sol_pc = "ran" /\ sol_proc.max_rss <= MemoryLimit) => FollowsRuleOrder

\* C15: with the memory within its limit, and for a batch solution whose
\* output file is there after the run, the solution verdict is the first
\* matching rule of cpu, wall, SIGXFSZ, SIGXCPU, other signal, exit code,
\* else RUN_SUCCESS, in the same order in the batch and the interactive
\* variant; without the output file the batch verdict is NO_FILE.
C15_RuleOrder ==
    (sol_pc = "ran" /\ sol_proc.max_rss <= MemoryLimit) =>
        IF sol_variant = "BATCH" /\ sol_output = "missing"
        THEN sol_record.verdict = "NO_FILE"
        ELSE FollowsRuleOrder

C15_Witness ==
    /\ sol_pc = "ran"
    /\ sol_variant = "BATCH"
    /\ sol_output # "missing"
    /\ sol_proc.max_rss <= MemoryLimit
    /\ sol_proc.cpu_time <= TimeLimit
    /\ sol_proc.wall_clock_time > TimeLimit
    /\ sol_proc.exit_signal = SIGXFSZ
    /\ sol_record.verdict = "TIMEOUT_WALL"

\* C16: in the interactive variant the interactor is judged first: timed
\* out gives CHECKER_TIMEDOUT, otherwise signalled gives CHECKER_CRASHED,
\* whatever the solution did; only otherwise the solution verdict table is
\* applied; only if the table leaves the solution clean the interactor's
\* exit code decides: 42 gives ACCEPTED, anything else WRONG with the first
\* line of judgemessage.txt as reason.
C16_InteractorFirst ==
    (sol_pc = "ran" /\ sol_variant = "INTERACTIVE") =>
        LET table == FirstMatchingRule(sol_proc)
        IN CASE sol_checker.is_timedout ->
                  sol_record.verdict = "CHECKER_TIMEDOUT"
             [] ~sol_checker.is_timedout /\ sol_checker.is_signaled_exit ->
                  sol_record.verdict = "CHECKER_CRASHED"
             [] OTHER ->
                  IF table # "RUN_SUCCESS"
                  THEN sol_record.verdict = table
                  ELSE IF sol_checker.exit_code = 42
                  THEN sol_record.verdict = "ACCEPTED"
                  ELSE /\ sol_record.verdict = "WRONG"
                       /\ sol_feedback.is_file /\ sol_feedback.lines # <<>> =>
                             sol_record.checker_reason = sol_feedback.lines[1]

C16_Witness ==
    /\ sol_pc = "ran"
    /\ sol_variant = "INTERACTIVE"
    /\ sol_checker.is_signaled_exit /\ ~sol_checker.is_timedout
    /\ sol_proc.cpu_time > TimeLimit
    /\ sol_proc.exit_signal = SIGXCPU
    /\ sol_record.verdict = "CHECKER_CRASHED"

\* every process handed to wait_procs has been reaped and has had its
\* status and rusage recorded exactly once
BatchReaped ==
    \A p \in Range(batch_procs) :
        /\ procs[p].os = "reaped"
        /\ procs[p].recorded = 1
        /\ procs[p].returncode = "set"

\* C17: wait_procs returns normally only once every process of the batch
\* has been reaped, so nothing that is read after the return (the verdict
\* predicates of a solution and its interactor) is read before both are
\* reaped, whichever of them exits first.
C17_ReturnAfterAllReaped ==
    [][(run_pc = "wait" /\ run_pc' = "returned") => BatchReaped /\ BatchReaped']_vars

C17_Witness ==
    /\ run_pc = "returned"
    /\ spawn_failure = "none"
    /\ Len(batch_procs) = 2
    /\ BatchReaped

\* run_checker has run the checker on a record whose verdict was
\* RUN_SUCCESS (a batch solution that ran cleanly and left its output)
CheckerJudged ==
    /\ sol_pc = "done"
    /\ sol_variant = "BATCH"
    /\ sol_output # "missing"
    /\ FirstMatchingRule(sol_proc) = "RUN_SUCCESS"

\* C18 as stated: on a RUN_SUCCESS record, a checker that timed out gives
\* CHECKER_TIMEDOUT, one killed by a signal CHECKER_CRASHED, exit code 42
\* gives ACCEPTED and every other exit WRONG.
C18_CheckerVerdictAsStated ==
    CheckerJudged =>
        sol_record.verdict =
            CASE sol_checker.is_timedout -> "CHECKER_TIMEDOUT"
              [] ~sol_checker.is_timedout /\ sol_checker.is_signaled_exit -> "CHECKER_CRASHED"
              [] OTHER -> IF sol_checker.exit_code = 42 THEN "ACCEPTED" ELSE "WRONG"

\* C18: on a RUN_SUCCESS record, a checker that timed out gives
\* CHECKER_TIMEDOUT, one killed by a signal CHECKER_CRASHED, exit code 42
\* gives ACCEPTED; every other exit gives WRONG when the solution's output
\* is not empty and NO_OUTPUT when it is empty.
C18_CheckerVerdict ==
    CheckerJudged =>
        sol_record.verdict =
            CASE sol_checker.is_timedout -> "CHECKER_TIMEDOUT"
              [] ~sol_checker.is_timedout /\ sol_checker.is_signaled_exit -> "CHECKER_CRASHED"
              [] OTHER -> IF sol_checker.exit_code = 42 THEN "ACCEPTED"
                          ELSE IF sol_output = "empty" THEN "NO_OUTPUT"
                          ELSE "WRONG"

C18_Witness ==
    /\ CheckerJudged
    /\ ~sol_checker.is_timedout /\ ~sol_checker.is_signaled_exit
    /\ sol_checker.exit_code = 1
    /\ sol_output = "nonempty"
    /\ sol_record.verdict = "WRONG"

\* the pipeline is through with a test whose recipe line is
\* "manual INPUT OUTPUT" and whose input was generated and validated
ForcedTestDone ==
    /\ TestDone
    /\ manual_output
    /\ result.input_generation = "SUCCESS"
    /\ result.input_validation = "SUCCESS"

\* the result of a forced test up to the checker, and no run of the model
\* solution
ForcedAnswerKept ==
    /\ result.is_output_forced
    /\ result.output_generation = "SKIPPED_SUCCESS"
    /\ solution_runs = 0

\* C19 as stated: for a test "manual INPUT OUTPUT" with generation and
\* validation successful, is_output_forced is true, output_generation is
\* SKIPPED_SUCCESS, the model solution is not run, and the checker runs
\* iff check_forced_output is enabled, output_validation being
\* SKIPPED_SUCCESS otherwise.
C19_ForcedOutputAsStated ==
    ForcedTestDone =>
        /\ ForcedAnswerKept
        /\ (checker_runs = 1) <=> config.check_forced_output
        /\ ~config.check_forced_output => result.output_validation = "SKIPPED_SUCCESS"

\* C19: for a test "manual INPUT OUTPUT" with generation and validation
\* successful, is_output_forced is true, output_generation is
\* SKIPPED_SUCCESS, the model solution is not run, and the checker runs
\* iff check_forced_output is enabled and the problem is a batch problem
\* with a checker of its own; output_validation is SKIPPED_SUCCESS
\* otherwise.
C19_ForcedOutput ==
    ForcedTestDone =>
        /\ ForcedAnswerKept
        /\ (checker_runs = 1) <=>
              (/\ config.check_forced_output
               /\ config.problem_type = "BATCH"
               /\ config.checker_type # "DEFAULT")
        /\ checker_runs = 0 => result.output_validation = "SKIPPED_SUCCESS"

C19_Witness ==
    /\ ForcedTestDone
    /\ config.check_forced_output
    /\ ~config.check_generated_output
    /\ checker_runs = 1
    /\ solution_runs = 0
    /\ result.output_generation = "SKIPPED_SUCCESS"

\* where command_gen can go next from each position of the per-test loop:
\* generate (gen, gen_status), validate-input (val), produce-answer (ans),
\* check (chk), then the summary line and the next test
StageSuccessors ==
    [gen        |-> {"gen_status"},
     gen_status |-> {"val"},
     val        |-> {"ans"},
     ans        |-> {"chk", "aborted"},
     chk        |-> {"sum"},
     sum        |-> {"next"},
     next       |-> {"gen", "finished"},
     aborted    |-> {},
     finished   |-> {},
     idle       |-> {}]

\* one step of command_gen keeps the order of stages and of tests
InStageOrder ==
    /\ pc' # pc => pc' \in StageSuccessors[pc]
    /\ test' \in {test, test + 1}
    /\ test' = test + 1 <=> (pc = "next" /\ pc' = "gen")
    /\ test' = test + 1 => \A slot \in Slots : result[slot] # "UNKNOWN"

\* C20: command_gen takes the tests in recipe order, one after the other,
\* and runs for each test the stages generate, validate-input,
\* produce-answer, check in this order; no stage of the next test starts
\* before every stage of the current one is complete.
C20_StagesAndTestsInOrder == [][InStageOrder]_vars

C20_Witness ==
    /\ test = 2
    /\ pc = "chk"
    /\ summary = <<1>>
    /\ result.input_generation = "SUCCESS"
    /\ result.input_validation = "SUCCESS"

\* run_validator has returned after a FileNotFoundError: a validator
\* program or the input to copy was not there
ValidatorFileErrorHit ==
    /\ val_pc = "done"
    /\ val_fnf # "none"
    /\ val_result.reason = "not found"

\* C21: a file-system or spawn error inside a stage of a test gives that
\* stage the verdict FAILED with a reason, and stays inside the stage.
C21_StageErrorGivesFailed ==
    ValidatorFileErrorHit => val_result.input_validation = "FAILED"

\* problem.yaml is missing or invalid, or the recipe does not parse
ConfigLevelError ==
    \/ cmd_files.problem_yaml # "ok"
    \/ cmd_files.recipe # "ok"

\* C22: a run of gen with a config-level error (problem.yaml missing or
\* invalid, a recipe that fails to parse) never spawns a child process, a
\* compile step included, and ends with the error.
C22_ConfigErrorBeforeAnySpawn ==
    ConfigLevelError =>
        /\ cmd_spawned = <<>>
        /\ ~cmd_cleaned
        /\ cmd_pc = "exited" => cmd_exit \notin {"none", "0", "1"}

C22_Witness ==
    /\ cmd_pc = "exited"
    /\ cmd_files.problem_yaml = "ok"
    /\ cmd_files.compiler_yaml = "ok"
    /\ cmd_files.recipe = "malformed"
    /\ cmd_files.model_solution
    /\ cmd_exit = "TMTInvalidConfigError"
    /\ cmd_spawned = <<>>

\* the compile steps whose verdict is neither SUCCESS nor SKIPPED
FailedCompiles ==
    {i \in DOMAIN cmd_verdicts : cmd_verdicts[i] \notin {"SUCCESS", "SKIPPED"}}

\* C23: when a compile step fails or times out the run exits with code 1
\* at that step: the failed step is the last child spawned, so no later
\* compile step and no generator, validator or solution of a test is run,
\* and the testcases directory is not cleaned.
C23_CompileFailureExits ==
    \A i \in FailedCompiles :
        /\ cmd_pc = "exited"
        /\ cmd_exit = "1"
        /\ cmd_spawned = SubSeq(CompileSteps(cmd_config), 1, i)
        /\ ~cmd_cleaned

C23_Witness ==
    /\ cmd_verdicts = <<"SUCCESS", "TIMEDOUT">>
    /\ cmd_config.run_checker
    /\ cmd_spawned = <<"generator", "validator">>
    /\ cmd_exit = "1"


\* the run verified the hashes against a hash.json that exists
HashVerified == hash_pc = "verified"

\* the computed hash map differs from the stored one
HashDiffers == AsMap(testcase_hashes) # official_testcase_hashes

\* C24: a run of gen --verify-hash ends with a non-zero exit status when
\* the computed hash map differs from the stored hash.json, and with
\* status 0 only when the two are equal.
C24_VerifyExitStatus ==
    HashVerified => (hash_exit = "0" <=> ~HashDiffers)

\* C25: the verification reports as mismatched the files in both maps with
\* different digests, as missing the files only in the stored map and as
\* extra the files only in the computed map; the three sets are pairwise
\* disjoint, and "Hash matches!" is printed exactly when all are empty.
C25_HashDiffSets ==
    HashVerified =>
        LET stored == official_testcase_hashes
            computed == AsMap(testcase_hashes)
            mismatched == Range(hash_printed.mismatched)
            missing == Range(hash_printed.missing)
            extra == Range(hash_printed.extra)
        IN /\ mismatched = {f \in HashNames : /\ f \in DOMAIN stored
                                              /\ f \in DOMAIN computed
                                              /\ stored[f] # computed[f]}
           /\ missing = {f \in HashNames : f \in DOMAIN stored /\ f \notin DOMAIN computed}
           /\ extra = {f \in HashNames : f \in DOMAIN computed /\ f \notin DOMAIN stored}
           /\ mismatched \cap missing = {}
           /\ mismatched \cap extra = {}
           /\ missing \cap extra = {}
           /\ hash_printed.headline = "Hash matches!"
                 <=> (mismatched = {} /\ missing = {} /\ extra = {})

C25_Witness ==
    /\ HashVerified
    /\ hash_printed.mismatched # <<>>
    /\ hash_printed.missing # <<>>
    /\ hash_printed.extra # <<>>

\* every line break of the text is followed by the closing brace or by
\* exactly four spaces and a member's opening quote
FourSpaceIndented(t) ==
    \A i \in DOMAIN t :
        t[i] = 10 =>
            \/ i + 1 = Len(t) /\ t[i + 1] = 125
            \/ i + 5 <= Len(t) /\ SubSeq(t, i + 1, i + 5) = <<32, 32, 32, 32, QUOTE>>

\* the keys of a dict are in strictly ascending order
KeysAscending(d) ==
    \A i, j \in DOMAIN d : i < j => LexLess(d[i][1], d[j][1])

\* C26: hash.json is a JSON object with sorted keys and 4-space
\* indentation; reading it back yields exactly the mapping written, and
\* serializing that again reproduces the file byte for byte.
C26_HashFileRoundTrip ==
    hash_pc = "written" =>
        /\ hash_file[1] = 123 /\ hash_file[Len(hash_file)] = 125
        /\ FourSpaceIndented(hash_file)
        /\ KeysAscending(JsonLoad(hash_file))
        /\ AsMap(JsonLoad(hash_file)) = AsMap(testcase_hashes)
        /\ JsonDump(JsonLoad(hash_file)) = hash_file

C26_Witness ==
    /\ hash_pc = "written"
    /\ Len(testcase_hashes) = 3
    /\ testcase_hashes[1][1] = <<233>>
    /\ testcase_hashes[2][1] = <<97>>
    /\ ~KeysAscending(testcase_hashes)


\* the position of the first and of the last underscore of a name
FirstUnderscore(name) ==
    CHOOSE i \in DOMAIN name :
        name[i] = UNDERSCORE /\ \A j \in 1..(i - 1) : name[j] # UNDERSCORE

LastUnderscore(name) ==
    CHOOSE i \in DOMAIN name :
        name[i] = UNDERSCORE /\ \A j \in (i + 1)..Len(name) : name[j] # UNDERSCORE

\* the three fields of a canonical name
TestsetField(name) == SubSeq(name, 1, FirstUnderscore(name) - 1)

NameField(name) == SubSeq(name, FirstUnderscore(name) + 1, LastUnderscore(name) - 1)

CaseField(name) == SubSeq(name, LastUnderscore(name) + 1, Len(name))

IsDigits(s) == s # <<>> /\ \A i \in DOMAIN s : s[i] \in 48..57

RECURSIVE DigitsValue(_)
\* the number a string of digits stands for
DigitsValue(s) ==
    IF s = <<>> THEN 0
    ELSE 10 * DigitsValue(SubSeq(s, 1, Len(s) - 1)) + (s[Len(s)] - 48)

\* the recipe was parsed without error
Parsed == rcp_parsed.error = "none"

\* the tests of the parsed recipe: (position of the testset, index of the case)
ParsedTests ==
    UNION {{<<i, j>> : j \in DOMAIN rcp_parsed.names[i]} : i \in DOMAIN rcp_parsed.names}

TestName(t) == rcp_parsed.names[t[1]][t[2]]

\* C27: after parsing every testcase has a name made of the padded testset
\* index, the testset name and the padded case index, joined by
\* underscores; the pair (testset index, case index) determines the name,
\* and no two testcases of the recipe have the same name.
C27_CanonicalNamesUnique ==
    Parsed =>
        /\ \A i \in DOMAIN rcp_parsed.testsets :
               DOMAIN rcp_parsed.names[i] = 1..rcp_parsed.testsets[i].ntests
        /\ \A t \in ParsedTests :
               LET name == TestName(t) IN
               /\ \E a, b \in DOMAIN name : a < b /\ name[a] = UNDERSCORE
                                                  /\ name[b] = UNDERSCORE
               /\ IsDigits(TestsetField(name))
               /\ DigitsValue(TestsetField(name)) = rcp_parsed.testsets[t[1]].testset_index
               /\ NameField(name) = rcp_parsed.testsets[t[1]].testset_name
               /\ IsDigits(CaseField(name))
               /\ DigitsValue(CaseField(name)) = t[2]
        /\ \A t, u \in ParsedTests :
               LET ti == rcp_parsed.testsets[t[1]].testset_index
                   ui == rcp_parsed.testsets[u[1]].testset_index
               IN /\ (ti = ui /\ t[2] = u[2]) => TestName(t) = TestName(u)
                  /\ t # u => TestName(t) # TestName(u)

C27_Witness ==
    /\ Parsed
    /\ Len(rcp_parsed.testsets) = 10
    /\ Len(rcp_parsed.names[5]) = 10
    /\ Len(rcp_parsed.names[10]) = 10
    /\ rcp_parsed.names[3][1] = <<48, 51, UNDERSCORE, 51, UNDERSCORE, 49, UNDERSCORE, 49>>

\* the number of digits of the largest testset index of a recipe
IndexDigits(recipe) == Len(Str(Len(recipe)))

\* the testsets that stand unchanged at the same place before and after a step
KeptTestsets ==
    {i \in DOMAIN rcp_recipe \cap DOMAIN rcp_recipe' : rcp_recipe[i] = rcp_recipe'[i]}

\* C28 as stated: the names of a testset that stands unchanged at the same
\* place stay the same under any edit elsewhere in the recipe (other
\* testsets appended or removed after it, cases of other testsets,
\* constants, validators).
C28_NamesStableAsStated ==
    [][(Parsed /\ Parsed') =>
          \A i \in KeptTestsets : rcp_parsed.names'[i] = rcp_parsed.names[i]]_vars

\* C28: the names of a testset that stands unchanged at the same place stay
\* the same under an edit elsewhere in the recipe that leaves the number of
\* digits of the largest testset index as it was.
C28_NamesStable ==
    [][(Parsed /\ Parsed' /\ rcp_recipe # <<>> /\ rcp_recipe' # <<>>
           /\ IndexDigits(rcp_recipe') = IndexDigits(rcp_recipe)) =>
          \A i \in KeptTestsets : rcp_parsed.names'[i] = rcp_parsed.names[i]]_vars

C28_Witness ==
    /\ Parsed
    /\ Len(rcp_recipe) = 3
    /\ rcp_recipe[2].ntests = 10
    /\ rcp_recipe[3].ntests = 10
    /\ rcp_other = 1
    /\ rcp_parsed.names[1] = <<<<49, UNDERSCORE, 116, 49, UNDERSCORE, 49>>>>

\* ceil(log10(m + 1)): the least w with 10^w >= m + 1
MinimalWidth(m) ==
    CHOOSE w \in 0..9 : 10 ^ w >= m + 1 /\ \A v \in 0..(w - 1) : 10 ^ v < m + 1

\* C29: the width of the testset field of every name is ceil(log10(max + 1))
\* for max the largest testset index, the width of the case field is the
\* same for max the number of cases of the testset, and the names listed by
\* get_all_test_names, in the order of (testset index, case index), are in
\* ascending lexicographic order.
C29_MinimalWidthsSortedNames ==
    Parsed =>
        /\ \A t \in ParsedTests :
               /\ Len(TestsetField(TestName(t)))
                     = MinimalWidth(MaxTestsetIndex(rcp_parsed.testsets))
               /\ Len(CaseField(TestName(t)))
                     = MinimalWidth(rcp_parsed.testsets[t[1]].ntests)
        /\ LET all_names == get_all_test_names(rcp_parsed)
           IN /\ Len(all_names) = Cardinality(ParsedTests)
              /\ \A i \in 1..(Len(all_names) - 1) : LexLess(all_names[i], all_names[i + 1])

C29_Witness ==
    /\ Parsed
    /\ Len(rcp_parsed.testsets) = 10
    /\ Len(rcp_parsed.names[9]) = 10
    /\ Len(rcp_parsed.names[10]) = 1
    /\ Len(get_all_test_names(rcp_parsed)) > 20


\* the last line defines a constant: its name and the value it gives it
Defines == cst_line.kind \in {"constant", "extra_file"}

DefinedValue ==
    IF cst_line.kind = "constant" THEN cst_line.value ELSE InternalName \o cst_line.ext

\* the last line defines a constant that existed, with another or the same value
RedefinesDifferent ==
    /\ Defines
    /\ cst_line.name \in DOMAIN cst_before
    /\ cst_before[cst_line.name] # DefinedValue

RedefinesSame ==
    /\ Defines
    /\ cst_line.name \in DOMAIN cst_before
    /\ cst_before[cst_line.name] = DefinedValue

\* the last line is one that expands its ${NAME} references, and one of
\* them is to a constant no earlier line defined
UndefinedReference ==
    /\ cst_line.kind \in {"test", "validation", "global_validation"}
    /\ \E r \in cst_line.refs : r \notin DOMAIN cst_before

\* C30 as stated: a definition (by @constant or @extra_file) of a constant
\* that exists with a different value is an error and leaves the table
\* unchanged, one with the same value is accepted, and a reference to a
\* constant not defined before the line that consumes it is an error.
C30_ConstantsAsStated ==
    /\ RedefinesDifferent => (cst_error # "none" /\ cst_constants = cst_before)
    /\ RedefinesSame => cst_error = "none"
    /\ UndefinedReference => cst_error # "none"

\* an @extra_file line that its handler turns down whatever it defines:
\* outside a testset or subtask, or in a testset with an extension that
\* lacks the dot or is already among the extra files of the testset
ExtrafileRejected ==
    /\ cst_line.kind = "extra_file"
    /\ cst_error \in {"@extra_file can only be used within testset or subtask context",
                      "Extra file should start with a dot",
                      "Extra file already added"}

\* C30: a definition of a constant that exists with a different value is
\* an error and leaves the table unchanged; one with the same value is
\* accepted when made by @constant, and when made by @extra_file unless
\* the line is turned down as an extra file; a reference to a constant not
\* defined before the line that consumes it is an error.
C30_Constants ==
    /\ RedefinesDifferent => (cst_error # "none" /\ cst_constants = cst_before)
    /\ RedefinesSame => (cst_error = "none" \/ ExtrafileRejected)
    /\ (RedefinesSame /\ cst_error = "none") => cst_constants = cst_before
    /\ UndefinedReference => cst_error # "none"

C30_Witness ==
    /\ cst_line = [kind |-> "extra_file", name |-> "NOTE", ext |-> <<".note">>]
    /\ "NOTE" \in DOMAIN cst_before
    /\ cst_before["NOTE"] = InternalName \o <<".note">>
    /\ "A" \in DOMAIN cst_before
    /\ cst_error = "none"

\* C31: no stage reads or writes files inside another stage's sandbox:
\* every directory of the sandbox a stage touched is that stage's own.
C31_OwnSandboxOnly ==
    \A a \in fs_access : a[2] \in Sandboxes => a[2] = SandboxOf[a[1]]

\* C32: when run_generator has returned, whatever the verdict, the
\* generation sandbox holds none of the test's files.
C32_GenerationSandboxEmpty ==
    fs_pc # "gen" => InDir(fs_files, "sandbox_generation") = {}

\* C35: a test listed in the summary has its input, its answer and its
\* extra files in testcases, and the hash map has exactly their names; a
\* test whose solution left no output file is not listed.
C35_ListedTestsAreHashed ==
    fs_summary =>
        /\ \A n \in HashedNames(fs_test) : File("testcases", n) \in fs_files
        /\ fs_hashes = HashedNames(fs_test)


\* C37: every pid os.wait3 hands to wait_procs belongs to the batch being
\* waited on and has no returncode yet, so that neither "assert pid in
\* remaining_pids" nor post_wait's "assert self.returncode is None" fails.
C37_ReapedPidIsAwaited ==
    /\ run_pc = "got_pid" =>
          /\ got_pid \in remaining_pids
          /\ procs[got_pid].returncode = "None"
    /\ exc # "AssertionError"

\* C39: compile_single runs its compile commands one after another: a
\* command has been reaped when the next one exists, and every command has
\* been reaped when compile_single has returned.
C39_CompileCommandsInSequence ==
    /\ \A i \in 1..(Len(cs_procs) - 1) : cs_procs[i].os = "reaped"
    /\ cs_pc = "returned" => \A i \in 1..Len(cs_procs) : cs_procs[i].os = "reaped"

\* C33: a compile step always terminates: whatever the build tool does,
\* hang or write to both streams, the step comes to return a result (or
\* to leave on an interrupt).
C33_CompileTerminates == <>(wo_pc \in {"returned", "raised"})

\* C36: every verdict the solution stage produces is covered: the
\* conversion to an ExecutionOutcome does not raise on the verdict of
\* run_solution, and the formatter does not raise on the verdict the
\* record holds after run_checker.
C36_VerdictsCovered ==
    /\ sol_pc = "ran" => eval_outcome_to_run_outcome(sol_record.verdict) # "RAISE"
    /\ sol_pc = "done" => print_checker_verdict(sol_record.verdict) # "RAISE"

\* C34: a parse ends in a RecipeData or in an error whose message names
\* the number of the offending line.
C34_ParseErrorNamesLine ==
    ps_outcome.kind \notin {"idle", "parsing", "RecipeData"} =>
        ps_outcome.line = ps_line_num

\* a run of command_gen is over: it returned, exited or raised
StoreOver == st_pc \in {"returned", "exited", "raised"}

\* C38: a run with --verify-hash leaves hash.json as it found it and, when
\* hash.json is absent, returns before compiling or cleaning anything; a
\* run without --verify-hash that returns has overwritten hash.json with the
\* map it computed, and a run that ends before the loop is over (a failed
\* compilation, an exception) leaves hash.json as it found it.
C38_StoredHashes ==
    /\ st_verify_hash => st_hash_json = st_before
    /\ (st_verify_hash /\ st_before = Absent)
          => st_compiled = 0 /\ ~st_cleaned /\ st_pc \in {"start", "returned"}
    /\ (~st_verify_hash /\ st_pc = "returned") => st_hash_json = Stored(st_testcase_hashes)
    /\ st_pc \in {"exited", "raised"} => st_hash_json = st_before

\* C38 as stated: every run without --verify-hash overwrites hash.json with
\* the computed map, however it ends.
C38_StoredHashesAsStated ==
    /\ st_verify_hash => st_hash_json = st_before
    /\ (st_verify_hash /\ st_before = Absent)
          => st_compiled = 0 /\ ~st_cleaned /\ st_pc \in {"start", "returned"}
    /\ (~st_verify_hash /\ StoreOver) => st_hash_json = Stored(st_testcase_hashes)

\* a run without --verify-hash replaced a hash.json that listed other files
C38_Witness ==
    /\ ~st_verify_hash /\ st_pc = "returned"
    /\ st_before # Absent /\ st_before # Stored(st_testcase_hashes)
    /\ st_hash_json = Stored(st_testcase_hashes) /\ st_testcase_hashes # {}

====
